---- MODULE Spec2Model ----
(***************************************************************************)
(* Model of the XAUUSD trading engine (the edge function of                *)
(* src/unnamed/part_006, the latest revision of                            *)
(* supabase/functions/trading-engine/index.ts).                            *)
(*                                                                         *)
(* The engine is request driven: every handler is one logical task that    *)
(* suspends at each await (store query, upstream HTTP call).  A handler is *)
(* therefore modelled as a small process whose steps are the code between  *)
(* two awaits; steps of different handlers interleave freely.              *)
(*                                                                         *)
(* The module holds several specifications over one set of variables, one  *)
(* per subsystem; the variables of the other subsystems stay at their      *)
(* initial values:                                                         *)
(*   SpecCache     the spot-price cache (getCurrentGoldPrice)              *)
(*   SpecBacktest  the persistence phase of runBacktestAction              *)
(*   SpecBacktestFrame  the same beside a manual trade and a bot session   *)
(*   SpecDispatch  analyzeMarketConditions and its two callers             *)
(*   SpecLedger    the trade ledger, closes and overlapping run_bot_logic  *)
(*   SpecLedgerSeq the same with non-overlapping run_bot_logic             *)
(*   SpecReplay    the candle replay of runBacktestAction and its report   *)
(*   SpecClose     profit of closes, in the ledger and in the replay       *)
(*   SpecRunner    run_bot_logic over several sessions, with its error     *)
(*                 boundary, on the simulated provider or the bridge       *)
(*   SpecProvider  the choice of the execution provider from the           *)
(*                 environment, for run_bot_logic and provider_close_order *)
(*   SpecCloseOrder  closeOrder of the simulated provider, on any id       *)
(*   SpecBridge    the HTTP client of the execution bridge                 *)
(*   SpecRouter    the dispatch of a request on its action                 *)
(*   SpecIndicators  the indicator functions on bounded series             *)
(*   SpecCrossover the SMA crossover strategy on closing prices            *)
(*   SpecLevels    the replay together with the stop and target levels     *)
(*   SpecDispatchAt  the dispatcher on a candle series, with the           *)
(*                 indicators computed from the candles                    *)
(***************************************************************************)
EXTENDS Integers, Sequences, FiniteSets, TLC

VARIABLES
  \* --- spot-price cache -------------------------------------------------
  now,              \* Date.now(), in milliseconds
  latestGoldPrice,  \* the process-wide cache entry (part_006:19)
  spotCall,         \* per caller: the getCurrentGoldPrice call in flight
  lastSpot,         \* the getCurrentGoldPrice call that completed last
  \* --- backtest persistence ---------------------------------------------
  backtest_reports, \* ids of the rows of table backtest_reports
  simulated_trades, \* rows of table simulated_trades: <<report id, index>>
  bt,               \* per request: the runBacktestAction call in flight
  btData,           \* per request: the dates of its `data`, once it arrived
  price_data_reads, \* the requests whose candle query reached the store
  emails,           \* the requests whose completion email was sent
  \* --- backtest replay --------------------------------------------------
  replay,           \* the replay in progress: request, candle count, index
  openTrade,        \* runBacktestAction's local openTrade
  tradesForDb,      \* runBacktestAction's local tradesForDb
  candleLog,        \* what the replay did in the candle it handled last
  reportSummary,    \* the summary the replay computed for its report
  \* --- strategy dispatcher ----------------------------------------------
  globalSession,    \* what the free identifier `session` of
                    \* analyzeMarketConditions (part_006:2026) denotes
  market,           \* indicator readings at the signal candle
  request,          \* the caller's settings (mode, thresholds, multipliers)
  analysis,         \* the last decision: caller, dispatcher result
  \* --- trade ledger and bot sessions ------------------------------------
  trades,           \* table trades: id -> row
  bot_sessions,     \* table bot_sessions: id -> row
  notifications,    \* table notifications: the types of its rows
  closer,           \* per slot: a close_trade / provider_close_order call
  runner,           \* per slot: a run_bot_logic call
  lastTurn,         \* what the step just taken did, if it ended a call of
                    \* processBotSession; NoTurn after any other step
  closeAnswer,      \* what SimulatedTradeProvider.closeOrder returned, if
                    \* the step just taken ended a call of it
  env,              \* the process environment (Deno.env)
  \* --- functions that keep no state: a call and what it returned --------
  bridgeCall,       \* an operation of MetaTraderBridgeProvider
  routed,           \* a request to the edge function and how it was routed
  indicatorCall,    \* a call of calculateSMA, calculateATR or calculateRSI
  crossoverCall,    \* a call of analyzeSMACrossoverStrategy on candles
  levelCall,        \* a strategy computing the stop and target of a signal
  dispatchCall      \* a call of analyzeMarketConditions on a candle series

cacheVars    == <<now, latestGoldPrice, spotCall, lastSpot>>
replayVars   == <<replay, openTrade, tradesForDb, candleLog, reportSummary>>
btVars       == <<backtest_reports, simulated_trades, bt, btData,
                 price_data_reads, emails, replay, openTrade,
                 tradesForDb, candleLog, reportSummary>>
dispVars     == <<market, request, analysis>>
ledgerVars   == <<trades, bot_sessions, notifications, closer, runner,
                 lastTurn, closeAnswer, env>>
callVars     == <<bridgeCall, routed, indicatorCall, crossoverCall,
                 levelCall, dispatchCall>>
vars == <<now, latestGoldPrice, spotCall, lastSpot, backtest_reports, simulated_trades,
          bt, btData, price_data_reads, emails, replay, openTrade, tradesForDb, candleLog, reportSummary,
          globalSession, market, request, analysis, trades, bot_sessions,
          notifications, closer, runner, lastTurn, closeAnswer, env,
          bridgeCall, routed,
          indicatorCall, crossoverCall, levelCall, dispatchCall>>

(***************************************************************************)
(* Bounds of the model.                                                    *)
(***************************************************************************)
MaxPrice      == 2   \* spot prices and rates range over 1..MaxPrice
NumCallers    == 2   \* concurrent getCurrentGoldPrice callers
MaxCacheTicks == 5   \* clock steps taken in SpecCache
MaxBacktests  == 2   \* run_backtest_action requests
MaxBtTrades   == 2   \* simulated trades one replay can produce
NumSessions   == 1   \* bot sessions a user can start
MaxTrades     == 2   \* rows the trade ledger can hold
MaxInput      == 3   \* candles handed to an indicator
MaxPeriod     == 2   \* indicator periods range over 1..MaxPeriod
MaxSeries     == 5   \* candles of a series handed to the dispatcher
NumListed     == 2   \* bot sessions one run_bot_logic call can list

Prices  == 1..MaxPrice
Callers == 1..NumCallers
BtRuns  == 1..MaxBacktests
Sessions == 1..NumSessions
TradeIds == 1..MaxTrades
Runners == {"run1", "run2"}     \* run_bot_logic invocations in flight
Closers == {"close1", "close2"} \* close requests in flight

(***************************************************************************)
(* The free identifier `session` of analyzeMarketConditions.               *)
(*                                                                         *)
(* part_006:2026 reads `session.strategy_settings?.atrMultiplierTP` inside *)
(* analyzeMarketConditions, where no `session` is declared.  The read      *)
(* resolves against the global scope of the host: with no such global it   *)
(* throws a ReferenceError, which the function's own catch block turns     *)
(* into "no trade"; with one, its atrMultiplierTP (or the default) is      *)
(* used.  globalSession is that host binding: Unbound, or the value of     *)
(* strategy_settings.atrMultiplierTP in tenths (0 when absent).            *)
(***************************************************************************)
Unbound == -1
GlobalSessionChoices == {Unbound, 0, 20}
SessionBound == globalSession # Unbound

(***************************************************************************)
(* The spot-price cache.                                                   *)
(***************************************************************************)
\* part_006:20
PRICE_CACHE_DURATION_MS == 5 * 60 * 1000

\* The clock advances in half cache periods, so that an entry is seen at
\* the ages 0, 2.5, 5, 7.5, 10 and 12.5 minutes.
TickMs == PRICE_CACHE_DURATION_MS \div 2

\* `let latestGoldPrice = null` (part_006:19)
NoCache == [has |-> FALSE, price |-> 0, timestamp |-> 0]

CacheEntry(price, t) == [has |-> TRUE, price |-> price, timestamp |-> t]

\* "c is set and younger than the given number of minutes at time t"
YoungerThan(c, t, minutes) ==
  c.has /\ (t - c.timestamp < minutes * 60 * 1000)

\* A caller's slot: no call, or a call suspended at `await fetch(url)`.
\* entryHas / entryYoung record what the call found on entry: a cache entry,
\* and one younger than 5 minutes; io counts its upstream requests.
IdleCall == [pc |-> "idle", entryHas |-> FALSE, entryYoung |-> FALSE,
             io |-> 0]

\* The record of the call that completed last (what its caller observes).
NoCompletion == [caller |-> 0, entryHas |-> FALSE, entryYoung |-> FALSE,
                 io |-> 0, upstream |-> "none", rate |-> 0,
                 outcome |-> "none", price |-> 0, at |-> 0,
                 cacheBefore |-> NoCache, cacheAfter |-> NoCache]

\* a test with a cache period shorter by one clock step
CacheIsFreshMut(c, t) ==
  c.has /\ (t - c.timestamp < PRICE_CACHE_DURATION_MS - TickMs)

\* getCurrentGoldPrice's test (part_006:1351)
CacheIsFresh(c, t) ==
  c.has /\ (t - c.timestamp < PRICE_CACHE_DURATION_MS)

\* the catch block's test (part_006:465)
CacheIsUsableOnError(c, t) ==
  c.has /\ (t - c.timestamp < PRICE_CACHE_DURATION_MS * 2)

\* a refresh that keeps the old entry's timestamp
RefreshedCacheMut(c, price, t) == CacheEntry(price, c.timestamp)

\* the assignment of part_006:459
RefreshedCache(c, price, t) == CacheEntry(price, t)

\* The call of caller p, in state c, completes now.
Completion(p, c, upstream, rate, outcome, price, cacheNext) ==
  [caller |-> p, entryHas |-> c.entryHas, entryYoung |-> c.entryYoung,
   io |-> c.io, upstream |-> upstream, rate |-> rate, outcome |-> outcome,
   price |-> price, at |-> now, cacheBefore |-> latestGoldPrice,
   cacheAfter |-> cacheNext]

Tick(maxTicks) ==
  /\ now < maxTicks * TickMs
  /\ now' = now + TickMs
  /\ UNCHANGED <<latestGoldPrice, spotCall, lastSpot, btVars, globalSession, callVars,
                 dispVars, ledgerVars>>

\* getCurrentGoldPrice up to its first await (part_006:1350-1356 and
\* 442-446): a fresh entry is returned at once; otherwise the upstream
\* request is issued.
SpotCall(p) ==
  /\ spotCall[p].pc = "idle"
  /\ LET c == [IdleCall EXCEPT
                 !.entryHas = latestGoldPrice.has,
                 !.entryYoung = YoungerThan(latestGoldPrice, now, 5)]
     IN IF CacheIsFresh(latestGoldPrice, now)
        THEN /\ lastSpot' = Completion(p, c, "none", 0, "returned",
                                       latestGoldPrice.price, latestGoldPrice)
             /\ UNCHANGED spotCall
        ELSE /\ spotCall' = [spotCall EXCEPT ![p] =
                  [c EXCEPT !.pc = "awaitFetch", !.io = c.io + 1]]
             /\ UNCHANGED lastSpot
  /\ UNCHANGED <<now, latestGoldPrice, btVars, globalSession, callVars, dispVars,
                 ledgerVars>>

\* The upstream answers 200 with an exchange rate (part_006:450-461).  The
\* rate is the decimal numeral the upstream API documents, and parseFloat
\* yields the number it denotes.
UpstreamOk(p) ==
  /\ spotCall[p].pc = "awaitFetch"
  /\ \E rate \in Prices :
       LET next == RefreshedCache(latestGoldPrice, rate, now)
       IN /\ latestGoldPrice' = next
          /\ lastSpot' = Completion(p, spotCall[p], "ok", rate, "returned",
                                    rate, next)
  /\ spotCall' = [spotCall EXCEPT ![p] = IdleCall]
  /\ UNCHANGED <<now, btVars, globalSession, callVars, dispVars, ledgerVars>>

\* The catch block (part_006:462-470).
OnFetchError(p, kind) ==
  IF CacheIsUsableOnError(latestGoldPrice, now)
  THEN Completion(p, spotCall[p], kind, 0, "returned",
                  latestGoldPrice.price, latestGoldPrice)
  ELSE Completion(p, spotCall[p], kind, 0, "threw", 0, latestGoldPrice)

\* fetch rejects, or the response is not OK (part_006:446-449).
UpstreamFails(p) ==
  /\ spotCall[p].pc = "awaitFetch"
  /\ \E kind \in {"transport", "notok"} :
       lastSpot' = OnFetchError(p, kind)
  /\ spotCall' = [spotCall EXCEPT ![p] = IdleCall]
  /\ UNCHANGED <<now, latestGoldPrice, btVars, globalSession, callVars, dispVars,
                 ledgerVars>>

\* The response is OK but carries no exchange rate (part_006:451-457): the
\* cached price is returned whatever its age; without a cache the error is
\* thrown inside the try block and reaches the catch block, where the cache
\* is still empty.
UpstreamNoRate(p) ==
  /\ spotCall[p].pc = "awaitFetch"
  /\ IF latestGoldPrice.has
     THEN lastSpot' = Completion(p, spotCall[p], "norate", 0, "returned",
                                 latestGoldPrice.price, latestGoldPrice)
     ELSE lastSpot' = OnFetchError(p, "norate")
  /\ spotCall' = [spotCall EXCEPT ![p] = IdleCall]
  /\ UNCHANGED <<now, latestGoldPrice, btVars, globalSession, callVars, dispVars,
                 ledgerVars>>

(***************************************************************************)
(* runBacktestAction: the persistence of a finished replay.                *)
(***************************************************************************)
IdleBt == [pc |-> "idle", n |-> 0, status |-> 0]

\* Lengths tradesForDb can have after the replay loop (part_006:1054-1172).
\* A simulated trade is opened only when the dispatcher returns a signal
\* (part_006:1147), which it cannot do when `session` is unbound.
ReplayTradeCounts == IF SessionBound THEN 0..MaxBtTrades ELSE {0}

\* The dates of a request's `data`: "" is a date that is absent (or
\* empty, which `!` treats alike); a body without `data` has neither.
NoRequestData == [data |-> FALSE, startDate |-> "", endDate |-> ""]

BtRequestData ==
  [data : {TRUE}, startDate : {"", "2024-01-01"},
   endDate : {"", "2024-01-31"}]
  \cup {NoRequestData}

\* a validation that looks at startDate only
DatesGivenMut(data) == data.data /\ data.startDate # ""

\* The request passes `if (!startDate || !endDate)` (part_006:1024); one
\* without `data` does not get there: the destructuring at 987-1004 throws
\* and serve answers 400 (434-439).
DatesGiven(data) ==
  data.data /\ data.startDate # "" /\ data.endDate # ""

\* The completion email (part_006:1243-1268) is sent when
\* NOTIFICATION_EMAIL_RECIPIENT is set.
EmailSent(r, sent) == emails' = IF sent THEN emails \cup {r} ELSE emails

\* The request is refused before anything is written: startDate or endDate
\* missing (part_006:1024-1028), the candle query failed (1047), or too few
\* candles (1048-1052).
BtRefuse(r) ==
  /\ bt[r].pc = "idle"
  /\ \E data \in BtRequestData, status \in {400, 500} :
       /\ btData' = [btData EXCEPT ![r] = data]
       /\ bt' = [bt EXCEPT ![r] =
                   [pc |-> "done", n |-> 0,
                    status |-> IF DatesGiven(data) THEN status ELSE 400]]
       /\ price_data_reads' = IF DatesGiven(data)
                              THEN price_data_reads \cup {r}
                              ELSE price_data_reads
  /\ UNCHANGED <<cacheVars, backtest_reports, simulated_trades, emails,
                 replayVars, globalSession, callVars, dispVars, ledgerVars>>

\* Candles are loaded and replayed (part_006:1038-1200).
BtReplay(r) ==
  /\ bt[r].pc = "idle"
  /\ \E data \in BtRequestData, n \in ReplayTradeCounts :
       /\ DatesGiven(data)
       /\ btData' = [btData EXCEPT ![r] = data]
       /\ bt' = [bt EXCEPT ![r] = [pc |-> "insertReport", n |-> n,
                                   status |-> 0]]
  /\ price_data_reads' = price_data_reads \cup {r}
  /\ UNCHANGED <<cacheVars, backtest_reports, simulated_trades, emails,
                 replayVars, globalSession, callVars, dispVars, ledgerVars>>

\* insert into backtest_reports (part_006:1202-1211); without trades the
\* handler skips the second insert (1225) and answers 200 (1270).
BtInsertReport(r) ==
  /\ bt[r].pc = "insertReport"
  /\ \/ /\ backtest_reports' = backtest_reports \cup {r}
        /\ bt' = [bt EXCEPT ![r] =
             IF bt[r].n > 0
             THEN [@ EXCEPT !.pc = "insertTrades"]
             ELSE [@ EXCEPT !.pc = "done", !.status = 200]]
        /\ \E sent \in BOOLEAN : EmailSent(r, sent /\ bt[r].n = 0)
     \/ /\ bt' = [bt EXCEPT ![r] = [@ EXCEPT !.pc = "done", !.status = 500]]
        /\ UNCHANGED <<backtest_reports, emails>>
  /\ UNCHANGED <<cacheVars, simulated_trades, btData, price_data_reads,
                 replayVars, globalSession, callVars, dispVars, ledgerVars>>

\* insert into simulated_trades, one statement for all rows
\* (part_006:1226-1227).
BtInsertTrades(r) ==
  /\ bt[r].pc = "insertTrades"
  /\ \/ /\ simulated_trades' =
             simulated_trades \cup {<<r, i>> : i \in 1..bt[r].n}
        /\ bt' = [bt EXCEPT ![r] = [@ EXCEPT !.pc = "done", !.status = 200]]
        /\ \E sent \in BOOLEAN : EmailSent(r, sent)
     \/ /\ bt' = [bt EXCEPT ![r] = [@ EXCEPT !.pc = "compensate"]]
        /\ UNCHANGED <<simulated_trades, emails>>
  /\ UNCHANGED <<cacheVars, backtest_reports, btData, price_data_reads,
                 replayVars, globalSession, callVars, dispVars, ledgerVars>>

\* The compensating delete (part_006:1229): its outcome is not inspected,
\* and the trades error is thrown next (1230, 1274-1278).
BtCompensate(r) ==
  /\ bt[r].pc = "compensate"
  /\ \/ backtest_reports' = backtest_reports \ {r}
     \/ UNCHANGED backtest_reports
  /\ bt' = [bt EXCEPT ![r] = [@ EXCEPT !.pc = "done", !.status = 500]]
  /\ UNCHANGED <<cacheVars, simulated_trades, btData, price_data_reads,
                 emails, replayVars, globalSession, callVars, dispVars,
                 ledgerVars>>

InitBacktest ==
  /\ backtest_reports = {}
  /\ simulated_trades = {}
  /\ bt = [r \in BtRuns |-> IdleBt]
  /\ btData = [r \in BtRuns |-> NoRequestData]
  /\ price_data_reads = {}
  /\ emails = {}

(***************************************************************************)
(* The strategies and their dispatcher.                                    *)
(*                                                                         *)
(* A market is what the indicator functions yield for one decision: the    *)
(* number of candles before the decision candle, the decision price, and   *)
(* the readings at the signal candle (Null where the indicator has no      *)
(* value).  Multipliers are in tenths, stops and targets in tenths of a    *)
(* price unit.  A settings field that is absent is 0 (or "" for the mode), *)
(* which `||` treats exactly like an absent one.                           *)
(***************************************************************************)
Null == -1

Modes == {"", "ADAPTIVE", "SMA_ONLY", "MEAN_REVERSION_ONLY"}

NoSettings ==
  [strategySelectionMode |-> "", smaShortPeriod |-> 0, smaLongPeriod |-> 0,
   bbPeriod |-> 0, rsiPeriod |-> 0, rsiOversold |-> 0, rsiOverbought |-> 0,
   adxPeriod |-> 0, adxRangeThreshold |-> 0, adxTrendThreshold |-> 0,
   atrPeriod |-> 0, atrMultiplierSL |-> 0, atrMultiplierTP |-> 0]

Requests ==
  {[NoSettings EXCEPT !.strategySelectionMode = mode,
                      !.adxTrendThreshold = trend] :
     mode \in Modes, trend \in {0, 22}}

Markets ==
  [dataLength : {20, 60}, decisionPrice : {100}, atr : {Null, 2},
   adx : {Null, 10, 20, 25, 30},
   smaShortPrev : 1..2, smaLongPrev : 1..2, smaShort : 1..2, smaLong : 1..2,
   bbLower : {2}, bbUpper : {4}, close : {1, 5},
   rsi : {25, 75}, rsiPrev : {20, 80}]

SetMax(S) == CHOOSE x \in S : \A y \in S : y <= x

\* a || b on numbers
OrElse(a, b) == IF a = 0 THEN b ELSE a

NoTrade(price) ==
  [shouldTrade |-> FALSE, tradeType |-> "", priceAtDecision |-> price,
   stopLoss |-> 0, takeProfit |-> 0, thrown |-> FALSE]

Thrown == [NoTrade(0) EXCEPT !.thrown = TRUE]

\* Number.prototype.toFixed(4) followed by parseFloat, on an amount in
\* millionths: the nearest multiple of one ten-thousandth.
ToFixed4(amount) ==
  LET magnitude == IF amount < 0 THEN -amount ELSE amount
      rounded == ((magnitude + 50) \div 100) * 100
  IN  IF amount < 0 THEN -rounded ELSE rounded

StopLossLevelMut(tradeType, decisionPrice, risk) ==
  ToFixed4(decisionPrice - risk)

\* part_006:947-949, 959 and 1962-1964, 1974: the stop of a signal, risk
\* being currentAtrValue * atrMultiplierSL; all amounts in millionths
StopLossLevel(tradeType, decisionPrice, risk) ==
  ToFixed4(IF tradeType = "BUY" THEN decisionPrice - risk
           ELSE decisionPrice + risk)

\* part_006:950-952, 960 and 1965-1967, 1975: the target of a signal,
\* reward being currentAtrValue * atrMultiplierTP; all amounts in millionths
TakeProfitLevel(tradeType, decisionPrice, reward) ==
  ToFixed4(IF tradeType = "BUY" THEN decisionPrice + reward
           ELSE decisionPrice - reward)

\* part_006:950-963 and 1965-1975: the signal with its ATR stop and target.
\* decisionPrice and atr are whole hundredths and the multipliers tenths, so
\* price and risk are 10000 and 1000 times as much in millionths, and the
\* stop and target are handed on in thousandths.
TradeSignal(tradeType, decisionPrice, atr, settings) ==
  [shouldTrade |-> TRUE, tradeType |-> tradeType,
   priceAtDecision |-> decisionPrice,
   stopLoss |-> StopLossLevel(tradeType, decisionPrice * 10000,
                              atr * settings.atrMultiplierSL * 1000)
                  \div 1000,
   takeProfit |-> TakeProfitLevel(tradeType, decisionPrice * 10000,
                                  atr * settings.atrMultiplierTP * 1000)
                    \div 1000,
   thrown |-> FALSE]

\* A strategy that found a side computes the levels of its signal: the
\* decision price in millionths, the ATR in hundred-thousandths, the
\* multipliers in tenths.
NoLevelCall ==
  [pc |-> "idle", tradeType |-> "", decisionPrice |-> 0, atr |-> 0,
   atrMultiplierSL |-> 0, atrMultiplierTP |-> 0, stopLoss |-> 0,
   takeProfit |-> 0]

\* ATRs from a quiet market (Wilder's smoothing of part_006:618 never
\* reaches 0) to a lively one
LevelAtrs == {1, 4, 10, 215000}

LevelInputs ==
  {[NoLevelCall EXCEPT !.tradeType = tradeType,
                       !.decisionPrice = decisionPrice, !.atr = atr,
                       !.atrMultiplierSL = multiplierSL,
                       !.atrMultiplierTP = 30] :
     tradeType \in {"BUY", "SELL"}, decisionPrice \in {1000000, 1850120000},
     atr \in LevelAtrs, multiplierSL \in {15, 20}}

analyzeSMACrossoverStrategy(m, decisionPrice, settings, currentAtrValue) ==
  IF m.dataLength < settings.smaLongPeriod \/ currentAtrValue = Null
  THEN NoTrade(decisionPrice)
  ELSE IF Null \in {m.smaShort, m.smaLong, m.smaShortPrev, m.smaLongPrev}
  THEN NoTrade(decisionPrice)
  ELSE IF m.smaShortPrev <= m.smaLongPrev /\ m.smaShort > m.smaLong
  THEN TradeSignal("BUY", decisionPrice, currentAtrValue, settings)
  ELSE IF m.smaShortPrev >= m.smaLongPrev /\ m.smaShort < m.smaLong
  THEN TradeSignal("SELL", decisionPrice, currentAtrValue, settings)
  ELSE NoTrade(decisionPrice)

\* candles is the length of the array handed in: the read of
\* ohlcDataForAnalysis[currentIndexForDecision].open_price (part_006:917)
\* throws a TypeError when the index is not inside it.
analyzeMeanReversionStrategy(m, candles, currentIndexForDecision, settings, currentAtrValue) ==
  IF currentIndexForDecision - 1 < SetMax({settings.bbPeriod,
                                           settings.rsiPeriod})
  THEN NoTrade(0)
  ELSE IF currentIndexForDecision >= candles
  THEN Thrown
  ELSE IF Null \in {m.bbLower, m.rsi, m.rsiPrev, currentAtrValue}
  THEN NoTrade(m.decisionPrice)
  ELSE IF /\ m.bbLower # 0 /\ m.close <= m.bbLower
          /\ m.rsi < settings.rsiOversold /\ m.rsi > m.rsiPrev
  THEN TradeSignal("BUY", m.decisionPrice, currentAtrValue, settings)
  ELSE IF /\ m.bbUpper # 0 /\ m.close >= m.bbUpper
          /\ m.rsi > settings.rsiOverbought /\ m.rsi < m.rsiPrev
  THEN TradeSignal("SELL", m.decisionPrice, currentAtrValue, settings)
  ELSE NoTrade(m.decisionPrice)

\* part_006:2011-2027, the take-profit multiplier being handed in
ConsolidatedParams(sessionSettings, atrMultiplierTP) ==
  [strategySelectionMode |->
     IF sessionSettings.strategySelectionMode = ""
     THEN "ADAPTIVE" ELSE sessionSettings.strategySelectionMode,
   smaShortPeriod    |-> OrElse(sessionSettings.smaShortPeriod, 20),
   smaLongPeriod     |-> OrElse(sessionSettings.smaLongPeriod, 50),
   bbPeriod          |-> OrElse(sessionSettings.bbPeriod, 20),
   rsiPeriod         |-> OrElse(sessionSettings.rsiPeriod, 14),
   rsiOversold       |-> OrElse(sessionSettings.rsiOversold, 30),
   rsiOverbought     |-> OrElse(sessionSettings.rsiOverbought, 70),
   adxPeriod         |-> OrElse(sessionSettings.adxPeriod, 14),
   adxRangeThreshold |-> OrElse(sessionSettings.adxRangeThreshold, 20),
   adxTrendThreshold |-> OrElse(sessionSettings.adxTrendThreshold, 25),
   atrPeriod         |-> OrElse(sessionSettings.atrPeriod, 14),
   atrMultiplierSL   |-> OrElse(sessionSettings.atrMultiplierSL, 15),
   atrMultiplierTP   |-> OrElse(atrMultiplierTP, 30)]

\* part_006:2043 and 2059
MinRequiredLength(params) ==
  SetMax({params.smaLongPeriod, params.atrPeriod + 1, params.bbPeriod,
          params.rsiPeriod, params.adxPeriod + params.adxPeriod - 1})

\* A strategy's exception is caught by the dispatcher (part_006:2174-2177).
CaughtByDispatcher(result) == IF result.thrown THEN NoTrade(0) ELSE result

\* The mean-reversion call of the dispatcher hands in the candles before the
\* decision candle and their number as the index (part_006:2144, 2163).
DispatchMeanReversion(m, params) ==
  CaughtByDispatcher(
    analyzeMeanReversionStrategy(m, m.dataLength, m.dataLength, params,
                                 m.atr))

analyzeMarketConditions(sessionSettings, m, hostSession) ==
  IF hostSession = Unbound
  THEN NoTrade(0)
  ELSE
    LET params == ConsolidatedParams(sessionSettings, hostSession)
    IN  IF m.dataLength < MinRequiredLength(params)
        THEN NoTrade(m.decisionPrice)
        ELSE IF m.atr = Null
        THEN NoTrade(m.decisionPrice)
        ELSE IF params.strategySelectionMode = "SMA_ONLY"
        THEN analyzeSMACrossoverStrategy(m, m.decisionPrice, params, m.atr)
        ELSE IF params.strategySelectionMode = "MEAN_REVERSION_ONLY"
        THEN DispatchMeanReversion(m, params)
        ELSE IF params.strategySelectionMode = "ADAPTIVE"
        THEN IF m.adx = Null
             THEN NoTrade(m.decisionPrice)
             ELSE IF m.adx > params.adxTrendThreshold
             THEN analyzeSMACrossoverStrategy(m, m.decisionPrice, params,
                                              m.atr)
             ELSE IF m.adx < params.adxRangeThreshold
             THEN DispatchMeanReversion(m, params)
             ELSE NoTrade(m.decisionPrice)
        ELSE NoTrade(m.decisionPrice)

\* The settings object the backtest replay builds for each candle
\* (part_006:1005-1022, 1094-1100): three periods and the two multipliers.
BacktestStrategyParams(req) ==
  [NoSettings EXCEPT
     !.smaShortPeriod  = OrElse(req.smaShortPeriod, 20),
     !.smaLongPeriod   = OrElse(req.smaLongPeriod, 50),
     !.atrPeriod       = OrElse(req.atrPeriod, 14),
     !.atrMultiplierSL = OrElse(req.atrMultiplierSL, 15),
     !.atrMultiplierTP = OrElse(req.atrMultiplierTP, 30)]

\* The settings object the session runner builds (part_006:2232-2238).
LiveStrategyParams(req) ==
  [NoSettings EXCEPT
     !.smaShortPeriod  = OrElse(req.smaShortPeriod, 20),
     !.smaLongPeriod   = OrElse(req.smaLongPeriod, 50),
     !.atrPeriod       = OrElse(req.atrPeriod, 14),
     !.atrMultiplierSL = OrElse(req.atrMultiplierSL, 15),
     !.atrMultiplierTP = OrElse(req.atrMultiplierTP, 30)]

NoAnalysis == [caller |-> "none", settings |-> NoSettings,
               result |-> NoTrade(0)]

Decision(caller, settings) ==
  [caller |-> caller, settings |-> settings,
   result |-> analyzeMarketConditions(settings, market, globalSession)]

\* analyzeMarketConditions applied to the settings as they are
DispatchDirect ==
  /\ analysis' = Decision("direct", request)
  /\ UNCHANGED <<cacheVars, btVars, globalSession, callVars, market, request,
                 ledgerVars>>

\* one candle's decision in runBacktestAction (part_006:1092-1103)
BacktestDecision ==
  /\ analysis' = Decision("backtest", BacktestStrategyParams(request))
  /\ UNCHANGED <<cacheVars, btVars, globalSession, callVars, market, request,
                 ledgerVars>>

\* one session's decision in processBotSession (part_006:2232-2239)
LiveDecision ==
  /\ analysis' = Decision("live", LiveStrategyParams(request))
  /\ UNCHANGED <<cacheVars, btVars, globalSession, callVars, market, request,
                 ledgerVars>>

InitDispatch ==
  /\ market \in Markets
  /\ request \in Requests
  /\ analysis = NoAnalysis

(***************************************************************************)
(* The trade ledger, the bot sessions and the handlers that write them.    *)
(*                                                                         *)
(* A ledger row's id is its index in trades.  A column that is not set is  *)
(* NULL.  lot_size is in hundredths of a lot.  The spot price a handler    *)
(* obtains from getCurrentGoldPrice is an input here; the cache that       *)
(* produces it is the subject of SpecCache.                                *)
(***************************************************************************)
NULL == <<>>

NewTrade(botSessionId, tradeType, lotSize, openPrice) ==
  [bot_session_id |-> botSessionId, trade_type |-> tradeType,
   lot_size |-> lotSize, open_price |-> openPrice, status |-> "open",
   close_price |-> NULL, profit_loss |-> NULL, close_time |-> NULL]

\* part_006:160-163 and 1403-1407
ProfitLoss(trade, currentPrice) ==
  LET priceDiff == IF trade.trade_type = "BUY"
                   THEN currentPrice - trade.open_price
                   ELSE trade.open_price - currentPrice
  IN  (priceDiff * trade.lot_size * 100) \div 100

\* a close that leaves profit_loss unset
ClosedTradeMut(trade, currentPrice, t) ==
  [trade EXCEPT !.close_price = <<currentPrice>>,
                !.status = "closed", !.close_time = <<t>>]

\* The columns one close UPDATE writes (part_006:167-172 and 1413-1418).
ClosedTrade(trade, currentPrice, t) ==
  [trade EXCEPT !.close_price = <<currentPrice>>,
                !.profit_loss = <<ProfitLoss(trade, currentPrice)>>,
                !.status = "closed", !.close_time = <<t>>]

\* a query that looks for the session's closed rows
OpenTradesOfSessionMut(sessionId) ==
  {id \in DOMAIN trades : /\ trades[id].bot_session_id = sessionId
                          /\ trades[id].status = "closed"}

\* The open-trades query of processBotSession (part_006:2211-2217).
OpenTradesOfSession(sessionId) ==
  {id \in DOMAIN trades : /\ trades[id].bot_session_id = sessionId
                          /\ trades[id].status = "open"}

NoSession == [status |-> "none", total_trades |-> 0,
              last_trade_time |-> NULL]

IdleCloser == [pc |-> "idle", action |-> "", id |-> 0, provider |-> ""]

\* No call of SimulatedTradeProvider.closeOrder ended in the step just
\* taken.
NoCloseAnswer == [id |-> 0, success |-> FALSE, error |-> "",
                  closePrice |-> NULL]

\* CloseOrderResult (part_006:153-154, 174-178): `error` is "" on success
CloseOrderResult(ticketId, success, error, closePrice) ==
  [id |-> ticketId, success |-> success, error |-> error,
   closePrice |-> closePrice]

\* The environment variables that select the execution provider; "" is a
\* variable that is not set.
NoEnv == [TRADE_PROVIDER_TYPE |-> "", MT_BRIDGE_URL |-> "",
          MT_BRIDGE_API_KEY |-> ""]

\* The bridge fully configured
BridgeEnv == [TRADE_PROVIDER_TYPE |-> "METATRADER",
              MT_BRIDGE_URL |-> "https://bridge",
              MT_BRIDGE_API_KEY |-> "key"]

\* The configurations considered: nothing set, each spelling of the
\* provider type with the bridge fully configured, and METATRADER with the
\* URL or the key missing.
Envs ==
  [TRADE_PROVIDER_TYPE : {"", "SIMULATED", "METATRADER", "metatrader"},
   MT_BRIDGE_URL : {"https://bridge"}, MT_BRIDGE_API_KEY : {"key"}]
  \cup [TRADE_PROVIDER_TYPE : {"METATRADER"},
        MT_BRIDGE_URL : {"", "https://bridge"},
        MT_BRIDGE_API_KEY : {"", "key"}]
  \cup {NoEnv}

\* String.prototype.toUpperCase on the values the variable takes
toUpperCase(string) ==
  IF string = "metatrader" THEN "METATRADER" ELSE string

\* a selection that does not look at the bridge's API key
getTradeProviderMut(environment) ==
  LET providerType ==
        IF toUpperCase(environment.TRADE_PROVIDER_TYPE) = ""
        THEN "SIMULATED" ELSE toUpperCase(environment.TRADE_PROVIDER_TYPE)
  IN  IF providerType = "METATRADER"
      THEN IF environment.MT_BRIDGE_URL = ""
           THEN "SIMULATED" ELSE "METATRADER"
      ELSE "SIMULATED"

\* getTradeProvider (part_006:475-487), used by the provider_* actions
getTradeProvider(environment) ==
  LET providerType ==
        IF toUpperCase(environment.TRADE_PROVIDER_TYPE) = ""
        THEN "SIMULATED" ELSE toUpperCase(environment.TRADE_PROVIDER_TYPE)
  IN  IF providerType = "METATRADER"
      THEN IF environment.MT_BRIDGE_URL = ""
              \/ environment.MT_BRIDGE_API_KEY = ""
           THEN "SIMULATED" ELSE "METATRADER"
      ELSE "SIMULATED"

\* The provider processBotSession constructs (part_006:2184-2200).
SessionTradeProvider(environment) ==
  LET providerType ==
        IF toUpperCase(environment.TRADE_PROVIDER_TYPE) = ""
        THEN "SIMULATED" ELSE toUpperCase(environment.TRADE_PROVIDER_TYPE)
  IN  IF providerType = "METATRADER"
      THEN IF environment.MT_BRIDGE_URL = ""
              \/ environment.MT_BRIDGE_API_KEY = ""
           THEN "SIMULATED" ELSE "METATRADER"
      ELSE "SIMULATED"

\* A run_bot_logic slot: the sessions the run listed, those still to be
\* processed, processedCount, and how often the catch block has run.
IdleRunner == [pc |-> "idle", sessions |-> <<>>, queue |-> <<>>,
               processedCount |-> 0, thrown |-> 0]

\* No call of processBotSession ended in the step just taken.
NoTurn == [id |-> 0, outcome |-> "none", provider |-> "", trade |-> 0,
           inserted |-> <<>>, total_before |-> 0, time_before |-> NULL,
           total_after |-> 0, time_after |-> NULL, sessions |-> <<>>,
           position |-> 0, processedCount |-> 0, thrown |-> 0,
           response |-> NULL]

\* riskSettingsMap.conservative.maxLotSize (part_006:2203-2209)
SessionLotSize == 1

\* Spot prices at which trades are opened, and at which they are closed.
EntryPrices == {1}
ExitPrices == {1, 2}

\* TradingService.startBot (tradingService.ts:93-121)
StartBot(s) ==
  /\ bot_sessions[s].status = "none"
  /\ bot_sessions' = [bot_sessions EXCEPT ![s].status = "active"]
  /\ lastTurn' = NoTurn
  /\ closeAnswer' = NoCloseAnswer
  /\ UNCHANGED <<cacheVars, btVars, globalSession, callVars, dispVars, trades,
                 notifications, closer, runner, env>>

\* TradingService.stopBot (tradingService.ts:123-138)
StopBot(s) ==
  /\ bot_sessions[s].status = "active"
  /\ bot_sessions' = [bot_sessions EXCEPT ![s].status = "stopped"]
  /\ lastTurn' = NoTurn
  /\ closeAnswer' = NoCloseAnswer
  /\ UNCHANGED <<cacheVars, btVars, globalSession, callVars, dispVars, trades,
                 notifications, closer, runner, env>>

\* execute_trade (part_006:1359-1391): spot price, insert, notification.
\* A failed price fetch or insert throws and changes nothing.
ExecuteTrade(tradeType) ==
  /\ Len(trades) < MaxTrades
  /\ \E currentPrice \in EntryPrices :
       trades' = Append(trades, NewTrade(0, tradeType, 1, currentPrice))
  /\ notifications' = notifications \cup {"trade_alert"}
  /\ lastTurn' = NoTurn
  /\ closeAnswer' = NoCloseAnswer
  /\ UNCHANGED <<cacheVars, btVars, globalSession, callVars, dispVars, bot_sessions,
                 closer, runner, env>>

\* The row a close request reads.  Without one the request ends with an
\* error and nothing changes.
SelectForClose(c, action, id, open) ==
  /\ closer[c].pc = "idle"
  /\ id \in DOMAIN trades
  /\ open => trades[id].status = "open"
  /\ closer' = [closer EXCEPT ![c] =
                  [pc |-> "update", action |-> action, id |-> id,
                   provider |-> IF open THEN "SIMULATED" ELSE ""]]
  /\ lastTurn' = NoTurn
  /\ closeAnswer' = NoCloseAnswer
  /\ UNCHANGED <<cacheVars, btVars, globalSession, callVars, dispVars, trades,
                 bot_sessions, notifications, runner, env>>

\* close_trade: the row is read by id alone (part_006:1396-1403).
CloseTradeSelect(c, id) == SelectForClose(c, "close_trade", id, FALSE)

\* a simulated closeOrder that reads the row by id alone
ProviderCloseOrderSelectMut(c, id) ==
  SelectForClose(c, "provider_close_order", id, FALSE)

\* provider_close_order (part_006:489-499) with the provider of
\* getTradeProvider.  The simulated provider reads the row by id and status
\* open (150-158); the bridge provider posts the ticket to the bridge
\* (303-313).
ProviderCloseOrderSelect(c, id) ==
  IF getTradeProvider(env) = "SIMULATED"
  THEN SelectForClose(c, "provider_close_order", id, TRUE)
  ELSE /\ closer[c].pc = "idle"
       /\ closer' = [closer EXCEPT ![c] =
                       [pc |-> "bridge", action |-> "provider_close_order",
                        id |-> id, provider |-> "METATRADER"]]
       /\ lastTurn' = NoTurn
       /\ closeAnswer' = NoCloseAnswer
       /\ UNCHANGED <<cacheVars, btVars, globalSession, callVars, dispVars, trades,
                      bot_sessions, notifications, runner, env>>

\* The bridge has answered /order/close, or the request failed; the result
\* is handed to the caller and the ledger is not touched
\* (part_006:303-313, 498).
BridgeCloseAnswer(c) ==
  /\ closer[c].pc = "bridge"
  /\ closer' = [closer EXCEPT ![c] = IdleCloser]
  /\ lastTurn' = NoTurn
  /\ closeAnswer' = NoCloseAnswer
  /\ UNCHANGED <<cacheVars, btVars, globalSession, callVars, dispVars, trades,
                 bot_sessions, notifications, runner, env>>

\* What closeOrder returns when no open row has the id.  The query ends
\* in .single(): the store client reports the missing row either as an
\* error, which closeOrder throws and catches (part_006:156, 176-179), or
\* as no data (157).
NotFoundErrors ==
  {"Error fetching trade to close", "Open trade with specified ID not found."}

\* The ids a close request can name: those of ledger rows and one more
TicketIds == 1..(MaxTrades + 1)

\* SimulatedTradeProvider.closeOrder up to the answer of the query when it
\* returns without touching the ledger (part_006:143-157, 176-179): the
\* spot price could not be obtained (148), or no open row has the id.
CloseOrderRefused(c, id) ==
  /\ getTradeProvider(env) = "SIMULATED"
  /\ closer[c].pc = "idle"
  /\ \/ closeAnswer' =
          CloseOrderResult(id, FALSE, "Failed to fetch gold price", NULL)
     \/ /\ ~(id \in DOMAIN trades /\ trades[id].status = "open")
        /\ \E error \in NotFoundErrors :
             closeAnswer' = CloseOrderResult(id, FALSE, error, NULL)
  /\ lastTurn' = NoTurn
  /\ UNCHANGED <<cacheVars, btVars, globalSession, callVars, dispVars, trades,
                 bot_sessions, notifications, closer, runner, env>>

\* The row is updated by id with the spot price the request obtained
\* (part_006:148, 165-173 and 1394, 1409-1420); closeTrade then records a
\* trade_alert (1424-1429).  A store error ends the request; closeOrder
\* answers it with success: false (175, 176-179).  The spot price depends
\* on nothing in the ledger, so it is drawn here.
CloseUpdate(c) ==
  /\ closer[c].pc = "update"
  /\ LET answer(result) ==
           closeAnswer' = IF closer[c].action = "provider_close_order"
                          THEN result ELSE NoCloseAnswer
     IN  \/ /\ \E currentPrice \in ExitPrices :
                  /\ trades' = [trades EXCEPT ![closer[c].id] =
                                  ClosedTrade(@, currentPrice, now)]
                  /\ answer(CloseOrderResult(closer[c].id, TRUE, "",
                                             <<currentPrice>>))
             /\ notifications' =
                  IF closer[c].action = "close_trade"
                  THEN notifications \cup {"trade_alert"}
                  ELSE notifications
         \/ /\ UNCHANGED <<trades, notifications>>
            /\ answer(CloseOrderResult(closer[c].id, FALSE,
                                       "Error updating trade to closed",
                                       NULL))
  /\ closer' = [closer EXCEPT ![c] = IdleCloser]
  /\ lastTurn' = NoTurn
  /\ UNCHANGED <<cacheVars, btVars, globalSession, callVars, dispVars, bot_sessions,
                 runner, env>>

\* run_bot_logic reads the active sessions (part_006:1454-1464); without
\* one it answers at once that none was processed.
BotStart(r) ==
  /\ runner[r].pc = "idle"
  /\ LET active == {s \in DOMAIN bot_sessions :
                      bot_sessions[s].status = "active"}
         listed == [i \in 1..Cardinality(active) |->
                      LET s == CHOOSE x \in active :
                                 Cardinality({y \in active : y < x}) = i - 1
                      IN  [id |-> s,
                           total_trades |-> bot_sessions[s].total_trades]]
     IN  /\ listed # <<>>
         /\ runner' = [runner EXCEPT ![r] =
              [IdleRunner EXCEPT !.sessions = listed, !.queue = listed,
                                 !.pc = "checkOpen"]]
  /\ lastTurn' = NoTurn
  /\ closeAnswer' = NoCloseAnswer
  /\ UNCHANGED <<cacheVars, btVars, globalSession, callVars, dispVars, trades,
                 bot_sessions, notifications, closer, env>>

\* a boundary that counts the failed session as processed
SessionThrewMut(run) ==
  [run EXCEPT
     !.pc = IF Tail(run.queue) = <<>> THEN "idle" ELSE "checkOpen",
     !.queue = Tail(run.queue),
     !.processedCount = run.processedCount + 1]

\* processBotSession threw and the catch block has run
\* (part_006:1471-1479): the loop goes on with the next session.
SessionThrew(run) ==
  [run EXCEPT
     !.pc = IF Tail(run.queue) = <<>> THEN "idle" ELSE "checkOpen",
     !.queue = Tail(run.queue)]

\* processBotSession has returned for the session at the head of the list
\* (part_006:1467-1470): processedCount++, and the loop goes on.
NextSession(run) ==
  [run EXCEPT
     !.pc = IF Tail(run.queue) = <<>> THEN "idle" ELSE "checkOpen",
     !.queue = Tail(run.queue),
     !.processedCount = run.processedCount + 1]

\* What one call of processBotSession did, as its caller and the store see
\* it: the outcome, the provider the order went to, the ledger row and the
\* notifications it inserted, the session's counter and last trade time
\* before and after, the run's list with the session's position in it, the
\* run's counts after the call, and the count run_bot_logic answered with
\* when the session was the last of the list (part_006:1482).
Turn(run, next, outcome, provider, trade, inserted, after) ==
  LET id == Head(run.queue).id
  IN  [id |-> id, outcome |-> outcome, provider |-> provider,
       trade |-> trade, inserted |-> inserted,
       total_before |-> bot_sessions[id].total_trades,
       time_before |-> bot_sessions[id].last_trade_time,
       total_after |-> after.total_trades,
       time_after |-> after.last_trade_time,
       sessions |-> run.sessions,
       position |-> Len(run.sessions) - Len(run.queue) + 1,
       processedCount |-> next.processedCount, thrown |-> next.thrown,
       response |-> IF next.pc = "idle" THEN <<next.processedCount>>
                    ELSE NULL]

\* After the last session run_bot_logic answers {processed: processedCount}
\* (part_006:1482-1484) and the invocation is over: the slot is free.
Answered(run) ==
  IF run.pc = "idle" THEN IdleRunner ELSE run

\* Markets the live feed shows to the session runner: a trending market
\* whose averages cross upwards, or do not cross.
LiveMarkets ==
  {[dataLength |-> 60, decisionPrice |-> 100, atr |-> 2, adx |-> 30,
    smaShortPrev |-> prev[1], smaLongPrev |-> prev[2],
    smaShort |-> prev[2], smaLong |-> prev[1],
    bbLower |-> 2, bbUpper |-> 4, close |-> 1, rsi |-> 25, rsiPrev |-> 20] :
     prev \in {<<1, 2>>, <<1, 1>>}}

\* The orders processBotSession can derive from the dispatcher's answer
\* (part_006:2232-2254): the answer must be a signal with a side, a price
\* and a stop.
LiveOrders ==
  {analysisResult \in
     {analyzeMarketConditions(LiveStrategyParams(request),
                              [m EXCEPT !.decisionPrice = currentPrice],
                              globalSession) :
        m \in LiveMarkets, currentPrice \in EntryPrices} :
     /\ analysisResult.shouldTrade
     /\ analysisResult.tradeType # ""
     /\ analysisResult.priceAtDecision # 0
     /\ analysisResult.stopLoss # 0}

\* processBotSession up to the order: the open-trades query with its two
\* early returns (part_006:2211-2228), then the dispatcher's answer, which
\* either ends the session's turn or leads to an order (2239-2269).  The
\* turn ends without an order when the query fails (2219-2222), and when
\* the dispatcher gives no signal (2330-2332) or no stop (2250-2252).
BotCheckOpen(r) ==
  /\ runner[r].pc = "checkOpen"
  /\ LET run == runner[r]
         id == Head(run.queue).id
         return(outcome) ==
           LET next == NextSession(run)
           IN  /\ runner' = [runner EXCEPT ![r] = Answered(next)]
               /\ lastTurn' = Turn(run, next, outcome, "", 0, <<>>,
                                   bot_sessions[id])
               /\ closeAnswer' = NoCloseAnswer
     IN  \/ return("no_order")
         \/ /\ OpenTradesOfSession(id) # {}
            /\ return("skipped")
         \/ /\ OpenTradesOfSession(id) = {}
            /\ LiveOrders # {}
            /\ runner' = [runner EXCEPT ![r].pc = "execute"]
            /\ lastTurn' = NoTurn
            /\ closeAnswer' = NoCloseAnswer
  /\ UNCHANGED <<cacheVars, btVars, globalSession, callVars, dispVars, trades,
                 bot_sessions, notifications, closer, env>>

\* The open-trades query is the first await of processBotSession; when
\* the store client rejects it, the exception reaches the catch block of
\* runBotLogic (part_006:1471-1479), which inserts a bot_error notification
\* for the session's user.
BotCatch(r) ==
  /\ runner[r].pc = "checkOpen"
  /\ LET run == runner[r]
         next == [SessionThrew(run) EXCEPT !.thrown = run.thrown + 1]
     IN  /\ runner' = [runner EXCEPT ![r] = Answered(next)]
         /\ lastTurn' = Turn(run, next, "threw", "", 0, <<"bot_error">>,
                             bot_sessions[Head(run.queue).id])
  /\ notifications' = notifications \cup {"bot_error"}
  /\ closeAnswer' = NoCloseAnswer
  /\ UNCHANGED <<cacheVars, btVars, globalSession, callVars, dispVars, trades,
                 bot_sessions, closer, env>>

\* a runner that counts the failed order as a trade of the session
SessionAfterOrderMut(row, session, success, t) ==
  [row EXCEPT !.total_trades = session.total_trades + 1,
              !.last_trade_time = <<t>>]

\* The bot_sessions row after the order (part_006:2271, 2287-2290): on
\* success total_trades is set to the value listed at the start of the run
\* plus one, and last_trade_time to the current time.
SessionAfterOrder(row, session, success, t) ==
  IF success
  THEN [row EXCEPT !.total_trades = session.total_trades + 1,
                   !.last_trade_time = <<t>>]
  ELSE row

\* The notification processBotSession inserts after the order
\* (part_006:2281-2286, 2323-2328).
OrderNotification(success) ==
  IF success THEN "bot_trade_executed" ELSE "bot_trade_error"

\* processBotSession from the order on (part_006:2256-2329).  The simulated
\* provider inserts the ledger row (108-141); the bridge provider posts the
\* order to the bridge and writes nothing (283-301).  Either reports
\* success or failure.  The market depends on nothing in the ledger, so the
\* order is drawn here.
BotExecute(r) ==
  /\ runner[r].pc = "execute"
  /\ LET run == runner[r]
         session == Head(run.queue)
         provider == SessionTradeProvider(env)
         next == NextSession(run)
         finish(success, trade) ==
           LET row == SessionAfterOrder(bot_sessions[session.id], session,
                                        success, now)
           IN  /\ notifications' =
                    notifications \cup {OrderNotification(success)}
               /\ bot_sessions' = [bot_sessions EXCEPT ![session.id] = row]
               /\ lastTurn' =
                    Turn(run, next,
                         IF success THEN "executed" ELSE "order_failed",
                         provider, trade, <<OrderNotification(success)>>,
                         row)
     IN  /\ \/ /\ provider = "SIMULATED"
               /\ Len(trades) < MaxTrades
               /\ \E order \in LiveOrders :
                    trades' = Append(trades,
                      NewTrade(session.id, order.tradeType, SessionLotSize,
                               order.priceAtDecision))
               /\ finish(TRUE, Len(trades) + 1)
            \/ /\ provider = "METATRADER"
               /\ session.total_trades < MaxTrades
               /\ UNCHANGED trades
               /\ finish(TRUE, 0)
            \/ /\ UNCHANGED trades
               /\ finish(FALSE, 0)
         /\ runner' = [runner EXCEPT ![r] = Answered(next)]
  /\ closeAnswer' = NoCloseAnswer
  /\ UNCHANGED <<cacheVars, btVars, globalSession, callVars, dispVars, closer, env>>

InitLedger ==
  /\ trades = <<>>
  /\ bot_sessions = [s \in Sessions |-> NoSession]
  /\ notifications = {}
  /\ closer = [c \in Closers |-> IdleCloser]
  /\ runner = [r \in Runners |-> IdleRunner]
  /\ lastTurn = NoTurn
  /\ closeAnswer = NoCloseAnswer
  /\ env = NoEnv

(***************************************************************************)
(* runBacktestAction: the replay of the candles.                           *)
(*                                                                         *)
(* A candle's prices are whole cents; stops, targets, entry and exit       *)
(* prices are in tenths of a cent, as the dispatcher returns them.  The    *)
(* lot size is in hundredths of a lot, so that priceDiff * lotSize * 100   *)
(* is the code's profit in units of 1/100000 dollar.  A candle's timestamp *)
(* is its index.  The candle at index i and the indicator readings of the  *)
(* candles before it are read from the store when the loop reaches i.      *)
(***************************************************************************)
MaxReplayCandles == 3   \* candles replayed beyond the first loop index

Tenths(price) == price * 10

\* `let openTrade = null` (part_006:1055)
NoOpenTrade ==
  [status |-> "none", entryTime |-> 0, entryPrice |-> 0, tradeType |-> "",
   lotSize |-> 0, stopLossPrice |-> 0, takeProfitPrice |-> 0,
   exitTime |-> NULL, exitPrice |-> NULL, profitOrLoss |-> NULL,
   closeReason |-> ""]

\* a trade stamped with the time of the candle before the one it opens in
NewSimulatedTradeMut(analysisResult, currentTime, maxLotSize) ==
  [NoOpenTrade EXCEPT
     !.status = "open", !.entryTime = currentTime - 1,
     !.entryPrice = Tenths(analysisResult.priceAtDecision),
     !.tradeType = analysisResult.tradeType, !.lotSize = maxLotSize,
     !.stopLossPrice = analysisResult.stopLoss,
     !.takeProfitPrice = analysisResult.takeProfit]

\* part_006:1148-1156
NewSimulatedTrade(analysisResult, currentTime, maxLotSize) ==
  [NoOpenTrade EXCEPT
     !.status = "open", !.entryTime = currentTime,
     !.entryPrice = Tenths(analysisResult.priceAtDecision),
     !.tradeType = analysisResult.tradeType, !.lotSize = maxLotSize,
     !.stopLossPrice = analysisResult.stopLoss,
     !.takeProfitPrice = analysisResult.takeProfit]

\* a profit that ignores the trade's side
SimulatedProfitMut(trade, exitPrice) ==
  (exitPrice - trade.entryPrice) * trade.lotSize * 100

\* part_006:1080/1085, 1110-1117, 1133-1139, 1164/1169
SimulatedProfit(trade, exitPrice) ==
  LET priceDiff == IF trade.tradeType = "BUY"
                   THEN exitPrice - trade.entryPrice
                   ELSE trade.entryPrice - exitPrice
  IN  priceDiff * trade.lotSize * 100

\* The element pushed on tradesForDb when a trade is closed
\* (part_006:1081-1087, 1113-1119, 1136-1141, 1165-1171).
ClosedSimulatedTrade(trade, exitTime, exitPrice, closeReason) ==
  [trade EXCEPT !.exitTime = <<exitTime>>, !.exitPrice = <<exitPrice>>,
                !.profitOrLoss = <<SimulatedProfit(trade, exitPrice)>>,
                !.closeReason = closeReason]

\* a stop check that knows BUY trades only
StopHitMut(trade, candle) ==
  /\ trade.tradeType = "BUY"
  /\ Tenths(candle.low_price) <= trade.stopLossPrice

\* part_006:1071-1077
StopHit(trade, candle) ==
  \/ trade.tradeType = "BUY"
     /\ Tenths(candle.low_price) <= trade.stopLossPrice
  \/ trade.tradeType = "SELL"
     /\ Tenths(candle.high_price) >= trade.stopLossPrice

\* part_006:1125-1131
TakeHit(trade, candle) ==
  \/ trade.tradeType = "BUY"
     /\ Tenths(candle.high_price) >= trade.takeProfitPrice
  \/ trade.tradeType = "SELL"
     /\ Tenths(candle.low_price) <= trade.takeProfitPrice

\* any signal closes the open trade
SignalExitMut(trade, analysisResult) ==
  trade.status = "open" /\ analysisResult.shouldTrade

\* part_006:1106-1108
SignalExit(trade, analysisResult) ==
  /\ trade.status = "open"
  /\ analysisResult.shouldTrade
  /\ analysisResult.tradeType # trade.tradeType

\* Rows of price_data (part_006:1038-1045): a quiet candle, or one whose
\* low, high or both leave the band of the stops and targets.
Candles(i) ==
  [timestamp : {i}, open_price : {100, 101}, high_price : {101, 107},
   low_price : {93, 100}, close_price : {100, 101}]

\* Indicator readings of the candles before the decision candle: a trending
\* market whose averages cross upwards, cross downwards or do not cross.
ReplayMarkets ==
  {[dataLength |-> 0, decisionPrice |-> 0, atr |-> 2, adx |-> 30,
    smaShortPrev |-> prev[1], smaLongPrev |-> prev[2],
    smaShort |-> prev[2], smaLong |-> prev[1],
    bbLower |-> 2, bbUpper |-> 4, close |-> 1, rsi |-> 25, rsiPrev |-> 20] :
     prev \in {<<1, 2>>, <<2, 1>>, <<1, 1>>}}

\* strategySettings and riskSettings of a run_backtest_action request
\* (part_006:993-1003): the defaults with a stop at 1.6 ATR, or with a long
\* average of 26 candles.
ReplayRequests ==
  {[NoSettings EXCEPT !.atrMultiplierSL = 16],
   [NoSettings EXCEPT !.smaLongPeriod = 26]}

\* riskSettings.maxLotSize, in hundredths of a lot (part_006:997, 1016)
ReplayLotSizes == {1, 5}

\* part_006:1048 and 1060
LoopStartIndex(req) ==
  LET effectiveStrategySettings == BacktestStrategyParams(req)
  IN  SetMax({effectiveStrategySettings.smaLongPeriod,
              effectiveStrategySettings.atrPeriod + 1})

\* Numbers of candles the store can hold for the requested date range.
CandleCounts(req) ==
  {LoopStartIndex(req) - 1}
    \cup (LoopStartIndex(req)..(LoopStartIndex(req) + MaxReplayCandles))

\* The run_backtest_action request whose replay is followed.
ReplayRun == 1

IdleReplay == [pc |-> "idle", r |-> 0, length |-> 0, i |-> 0,
               maxLotSize |-> 0, status |-> 0]

NoCandle == [timestamp |-> -1, open_price |-> 0, high_price |-> 0,
             low_price |-> 0, close_price |-> 0]

NoCandleLog == [candle |-> NoCandle, before |-> NoOpenTrade,
                afterStop |-> NoOpenTrade, analysisResult |-> NoTrade(0),
                closed |-> <<>>, after |-> NoOpenTrade]

NoReport == [total_trades |-> -1, total_profit_loss |-> 0,
             winning_trades |-> 0, losing_trades |-> 0, win_rate |-> 0]

\* Number.prototype.toFixed(2) followed by parseFloat, on an amount in
\* units of 1/100000: the nearest multiple of one hundredth.
ToFixed2(amount) ==
  LET magnitude == IF amount < 0 THEN -amount ELSE amount
      rounded == ((magnitude + 500) \div 1000) * 1000
  IN  IF amount < 0 THEN -rounded ELSE rounded

\* (winningTrades / totalTrades) * 100 through toFixed(2), in hundredths of
\* a percent (part_006:1185, 1199).
WinRate(winningTrades, totalTrades) ==
  IF totalTrades > 0
  THEN (2 * winningTrades * 10000 + totalTrades) \div (2 * totalTrades)
  ELSE 0

RECURSIVE SumProfit(_)
SumProfit(list) ==
  IF list = <<>> THEN 0 ELSE list[1].profitOrLoss[1] + SumProfit(Tail(list))

\* a summary that counts every trade without a loss as a winner
ReportSummaryMut(list) ==
  LET winningTrades ==
        Cardinality({k \in DOMAIN list : list[k].profitOrLoss[1] >= 0})
      losingTrades ==
        Cardinality({k \in DOMAIN list : list[k].profitOrLoss[1] < 0})
  IN  [total_trades |-> Len(list),
       total_profit_loss |-> ToFixed2(SumProfit(list)),
       winning_trades |-> winningTrades, losing_trades |-> losingTrades,
       win_rate |-> WinRate(winningTrades, Len(list))]

\* part_006:1174-1200
ReportSummary(list) ==
  LET winningTrades ==
        Cardinality({k \in DOMAIN list : list[k].profitOrLoss[1] > 0})
      losingTrades ==
        Cardinality({k \in DOMAIN list : list[k].profitOrLoss[1] < 0})
  IN  [total_trades |-> Len(list),
       total_profit_loss |-> ToFixed2(SumProfit(list)),
       winning_trades |-> winningTrades, losing_trades |-> losingTrades,
       win_rate |-> WinRate(winningTrades, Len(list))]

\* The candles are loaded (part_006:1038-1052): a query error is thrown to
\* the handler's catch block (500), too few candles are answered with 400,
\* otherwise the loop starts at loopStartIndex (1060).
ReplayLoad(r) ==
  /\ replay.pc = "idle"
  /\ r = ReplayRun
  /\ bt[r].pc = "idle"
  /\ \E data \in BtRequestData :
       /\ btData' = [btData EXCEPT ![r] = data]
       /\ price_data_reads' = IF DatesGiven(data)
                              THEN price_data_reads \cup {r}
                              ELSE price_data_reads
       /\ \/ /\ ~DatesGiven(data)
             /\ replay' = [IdleReplay EXCEPT !.pc = "done", !.r = r,
                                             !.status = 400]
             /\ bt' = [bt EXCEPT ![r] =
                         [pc |-> "done", n |-> 0, status |-> 400]]
          \/ /\ DatesGiven(data)
             /\ replay' = [IdleReplay EXCEPT !.pc = "done", !.r = r,
                                             !.status = 500]
             /\ bt' = [bt EXCEPT ![r] =
                         [pc |-> "done", n |-> 0, status |-> 500]]
          \/ /\ DatesGiven(data)
             /\ \E length \in CandleCounts(request),
                   maxLotSize \in ReplayLotSizes :
                  IF length < LoopStartIndex(request)
                  THEN /\ replay' = [IdleReplay EXCEPT
                                       !.pc = "done", !.r = r,
                                       !.length = length, !.status = 400]
                       /\ bt' = [bt EXCEPT ![r] =
                                   [pc |-> "done", n |-> 0, status |-> 400]]
                  ELSE /\ replay' = [pc |-> "loop", r |-> r,
                                     length |-> length,
                                     i |-> LoopStartIndex(request),
                                     maxLotSize |-> maxLotSize, status |-> 0]
                       /\ UNCHANGED bt
  /\ UNCHANGED <<cacheVars, backtest_reports, simulated_trades, emails,
                 openTrade,
                 tradesForDb, candleLog, reportSummary, globalSession, callVars,
                 dispVars, ledgerVars>>

\* What one pass of the loop body does with the candle at index i and the
\* readings m (part_006:1063-1158): the stop check, the dispatcher's call,
\* then the signal exit, else the target check, else (no trade open) the
\* entry.
CandlePass(before, candle, m, i, maxLotSize) ==
  LET slHit == before.status = "open" /\ StopHit(before, candle)
      afterStop == IF slHit THEN NoOpenTrade ELSE before
      analysisResult ==
        analyzeMarketConditions(
          BacktestStrategyParams(request),
          [m EXCEPT !.dataLength = i, !.decisionPrice = candle.open_price],
          globalSession)
      signalExit == SignalExit(afterStop, analysisResult)
      tpHit == /\ afterStop.status = "open"
               /\ ~signalExit
               /\ afterStop.takeProfitPrice # 0
               /\ TakeHit(afterStop, candle)
      entry == /\ afterStop.status = "none"
               /\ analysisResult.shouldTrade
               /\ analysisResult.tradeType # ""
               /\ analysisResult.priceAtDecision # 0
               /\ analysisResult.stopLoss # 0
      closed ==
        (IF slHit
         THEN <<ClosedSimulatedTrade(before, candle.timestamp,
                                     before.stopLossPrice, "SL")>>
         ELSE <<>>)
        \o (IF signalExit
            THEN <<ClosedSimulatedTrade(
                     afterStop, candle.timestamp,
                     Tenths(analysisResult.priceAtDecision), "Signal")>>
            ELSE IF tpHit
            THEN <<ClosedSimulatedTrade(afterStop, candle.timestamp,
                                        afterStop.takeProfitPrice, "TP")>>
            ELSE <<>>)
      after == IF signalExit \/ tpHit THEN NoOpenTrade
               ELSE IF entry
               THEN NewSimulatedTrade(analysisResult, candle.timestamp,
                                      maxLotSize)
               ELSE afterStop
  IN  [candle |-> candle, before |-> before, afterStop |-> afterStop,
       analysisResult |-> analysisResult, closed |-> closed,
       after |-> after]

\* One iteration of the loop (part_006:1062-1159).
ReplayCandle ==
  /\ replay.pc = "loop"
  /\ replay.i < replay.length
  /\ \E candle \in Candles(replay.i), m \in ReplayMarkets :
       LET pass == CandlePass(openTrade, candle, m, replay.i,
                              replay.maxLotSize)
       IN  /\ candleLog' = pass
           /\ openTrade' = pass.after
           /\ tradesForDb' = tradesForDb \o pass.closed
  /\ replay' = [replay EXCEPT !.i = @ + 1]
  /\ UNCHANGED <<cacheVars, backtest_reports, simulated_trades, bt, btData,
                 price_data_reads, emails,
                 reportSummary, globalSession, callVars, dispVars, ledgerVars>>

\* a replay that drops the trade still open after the last candle
TradesAfterLoopMut(list, trade, lastCandle) == list

\* tradesForDb after the loop (part_006:1161-1172): a trade still open is
\* closed at the last candle's close.  The last candle is the one the loop
\* handled last: a trade can only be open when the loop ran.
TradesAfterLoop(list, trade, lastCandle) ==
  IF trade.status = "open"
  THEN Append(list, ClosedSimulatedTrade(trade, lastCandle.timestamp,
                                         Tenths(lastCandle.close_price),
                                         "EndOfTest"))
  ELSE list

\* The loop has ended: end-of-test close, aggregates (part_006:1161-1200),
\* and the request goes on to store the report (1202).
ReplayFinish ==
  /\ replay.pc = "loop"
  /\ replay.i = replay.length
  /\ LET list == TradesAfterLoop(tradesForDb, openTrade, candleLog.candle)
     IN  /\ tradesForDb' = list
         /\ reportSummary' = ReportSummary(list)
         /\ bt' = [bt EXCEPT ![replay.r] =
                     [pc |-> "insertReport", n |-> Len(list), status |-> 0]]
  /\ replay' = [replay EXCEPT !.pc = "done", !.status = 200]
  /\ UNCHANGED <<cacheVars, backtest_reports, simulated_trades, btData,
                 price_data_reads, emails, openTrade,
                 candleLog, globalSession, callVars, dispVars, ledgerVars>>

InitReplay ==
  /\ replay = IdleReplay
  /\ openTrade = NoOpenTrade
  /\ tradesForDb = <<>>
  /\ candleLog = NoCandleLog
  /\ reportSummary = NoReport

(***************************************************************************)
(* MetaTraderBridgeProvider.                                               *)
(*                                                                         *)
(* part_006 declares the class twice (238-370 and 1771-1917) with          *)
(* different bodies of makeRequest and getServerTime; which declaration    *)
(* the deployed module ends up with is not fixed by the source, so it is   *)
(* an input of the model.  A call is followed from the bridge's answer to  *)
(* what the operation hands to its caller.                                 *)
(***************************************************************************)
ABSENT == "absent"

BridgeDeclarations == {238, 1771}

BridgeEndpoints ==
  [executeOrder |-> "/order/execute", closeOrder |-> "/order/close",
   getAccountSummary |-> "/account/summary",
   getOpenPositions |-> "/positions/open", getServerTime |-> "/server/time"]

BridgeOperations == DOMAIN BridgeEndpoints

\* A JSON object the bridge can send: its fields success, error and ticket,
\* and `data` for the fields that carry the operation's payload (closePrice
\* and profit, the balances, positions, serverTime).
BridgeObjects ==
  [json : {"object"}, success : {"true", "false", ABSENT},
   error : {ABSENT, "denied"}, ticket : {ABSENT, "7"},
   data : {ABSENT, "data"}]

\* A body without fields: the JSON value null, or text that is not JSON
\* (the empty body included).
NoObject(json) ==
  [json |-> json, success |-> ABSENT, error |-> ABSENT, ticket |-> ABSENT,
   data |-> ABSENT]

BridgeBodies == BridgeObjects \cup {NoObject("null"), NoObject("unparsable")}

\* What fetch yields: a rejected promise, or a response with its status and
\* body.  A 204 response has no body.
BridgeResponses ==
  {[status |-> 0, body |-> NoObject("unparsable")]}
  \cup [status : {200, 202, 500}, body : BridgeBodies]
  \cup {[status |-> 204, body |-> NoObject("unparsable")]}

TransportFailure(response) == response.status = 0

\* An Error's message: the exception it stems from, the endpoint it names
\* ("" when it names none), and the bridge's error text it carries.
ErrorMessage(kind, endpoint, text) ==
  [kind |-> kind, endpoint |-> endpoint, text |-> text]

NoError == ErrorMessage("none", "", "")

Threw(message) ==
  [threw |-> TRUE, error |-> message, data |-> NoObject("null")]

Returned(data) == [threw |-> FALSE, error |-> NoError, data |-> data]

\* `new Error("Bridge API Error (endpoint): status - errorData.error ||
\* statusText")` (part_006:271, 1799); errorData is the parsed body, or the
\* substitute for a body that does not parse (265-269, 1797).  Reading
\* .error of a body that is the JSON value null throws a TypeError.
BridgeApiError(endpoint, body) ==
  IF body.json = "null"
  THEN Threw(ErrorMessage("TypeError", "", ""))
  ELSE IF body.json = "unparsable"
  THEN Threw(ErrorMessage("BridgeApiError", endpoint,
                          "Failed to parse error response from bridge"))
  ELSE Threw(ErrorMessage("BridgeApiError", endpoint,
                          IF body.error = ABSENT THEN "statusText"
                          ELSE body.error))

\* `await response.json()` (part_006:277, 1801)
ResponseJson(body) ==
  IF body.json = "unparsable"
  THEN Threw(ErrorMessage("SyntaxError", "", ""))
  ELSE Returned(body)

\* makeRequest as declared at part_006:250-282 and at 1783-1805.  Both
\* rethrow what they catch; only the first answers a 202 or 204 itself.
makeRequest(declaration, endpoint, response) ==
  IF TransportFailure(response)
  THEN Threw(ErrorMessage("TypeError", "", "fetch failed"))
  ELSE IF response.status \notin 200..299
  THEN BridgeApiError(endpoint, response.body)
  ELSE IF declaration = 238 /\ response.status \in {202, 204}
  THEN Returned([NoObject("object") EXCEPT !.success = "true"])
  ELSE ResponseJson(response.body)

\* What an operation hands to its caller: whether an exception left it, the
\* success flag ("" for the operations that have none), the error field
\* (NoError when it is not set) and the payload ("[]" is the empty list).
BridgeResult(propagated, success, error, value) ==
  [propagated |-> propagated, success |-> success, error |-> error,
   value |-> value]

\* `responseData.error || fallback` as the error of a result
BridgeErrorOr(data, fallback) ==
  IF data.error = ABSENT THEN ErrorMessage("fallback", "", fallback)
  ELSE ErrorMessage("bridge", "", data.error)

\* The catch block every operation has around its request: reading a field
\* of the JSON value null throws a TypeError inside the same try.
CaughtByOperation(reply) ==
  IF reply.threw THEN reply.error
  ELSE IF reply.data.json = "null" THEN ErrorMessage("TypeError", "", "")
  ELSE NoError

\* executeOrder (part_006:283-301, 1807-1834)
executeOrder(declaration, response) ==
  LET reply == makeRequest(declaration, BridgeEndpoints.executeOrder,
                             response)
      caught == CaughtByOperation(reply)
  IN  IF caught # NoError
      THEN BridgeResult(FALSE, "false", caught, ABSENT)
      ELSE IF reply.data.success = "true" /\ reply.data.ticket # ABSENT
      THEN BridgeResult(FALSE, "true", NoError, reply.data.ticket)
      ELSE BridgeResult(FALSE, "false",
             BridgeErrorOr(reply.data,
                           "Failed to execute order via bridge."), ABSENT)

\* closeOrder (part_006:303-318, 1838-1860)
closeOrder(declaration, response) ==
  LET reply == makeRequest(declaration, BridgeEndpoints.closeOrder,
                             response)
      caught == CaughtByOperation(reply)
  IN  IF caught # NoError
      THEN BridgeResult(FALSE, "false", caught, ABSENT)
      ELSE IF reply.data.success = "true"
      THEN BridgeResult(FALSE, "true", NoError, reply.data.data)
      ELSE BridgeResult(FALSE, "false",
             BridgeErrorOr(reply.data,
                           "Failed to close order via bridge."), ABSENT)

\* getAccountSummary (part_006:320-333, 1862-1876): the balances are copied
\* from whatever object the bridge sent.
getAccountSummary(declaration, response) ==
  LET reply == makeRequest(declaration, BridgeEndpoints.getAccountSummary,
                             response)
      caught == CaughtByOperation(reply)
  IN  IF caught # NoError
      THEN BridgeResult(FALSE, "", caught, "0")
      ELSE BridgeResult(FALSE, "", NoError, reply.data.data)

\* getOpenPositions (part_006:335-358, 1878-1902)
getOpenPositions(declaration, response) ==
  LET reply == makeRequest(declaration, BridgeEndpoints.getOpenPositions,
                             response)
      caught == CaughtByOperation(reply)
  IN  IF caught # NoError
      THEN BridgeResult(FALSE, "", NoError, "[]")
      ELSE BridgeResult(FALSE, "", NoError,
                        IF reply.data.data = ABSENT THEN "[]"
                        ELSE reply.data.data)

\* getServerTime: `{time: data.serverTime, error: data.error}` at
\* part_006:360-367, `{time: data.serverTime}` at 1904-1912.
getServerTime(declaration, response) ==
  LET reply == makeRequest(declaration, BridgeEndpoints.getServerTime,
                             response)
      caught == CaughtByOperation(reply)
  IN  IF caught # NoError
      THEN BridgeResult(FALSE, "", caught, "")
      ELSE BridgeResult(FALSE, "",
                        IF declaration = 238 /\ reply.data.error # ABSENT
                        THEN ErrorMessage("bridge", "", reply.data.error)
                        ELSE NoError,
                        reply.data.data)

BridgeOperation(operation, declaration, response) ==
  CASE operation = "executeOrder" -> executeOrder(declaration, response)
    [] operation = "closeOrder" -> closeOrder(declaration, response)
    [] operation = "getAccountSummary" ->
         getAccountSummary(declaration, response)
    [] operation = "getOpenPositions" ->
         getOpenPositions(declaration, response)
    [] operation = "getServerTime" -> getServerTime(declaration, response)

NoBridgeCall ==
  [pc |-> "idle", declaration |-> 238, operation |-> "",
   response |-> [status |-> 0, body |-> NoObject("unparsable")],
   result |-> BridgeResult(FALSE, "", NoError, ABSENT)]

\* A caller invokes an operation of the provider, which sends its request.
BridgeRequest(operation) ==
  /\ bridgeCall.pc \in {"idle", "returned"}
  /\ bridgeCall' = [NoBridgeCall EXCEPT
                      !.pc = "sent", !.operation = operation,
                      !.declaration = bridgeCall.declaration]
  /\ UNCHANGED <<cacheVars, btVars, globalSession, dispVars, ledgerVars,
                 routed, indicatorCall, crossoverCall, levelCall, dispatchCall>>

\* The bridge answers (or the transport fails) and the operation returns.
BridgeAnswer(response) ==
  /\ bridgeCall.pc = "sent"
  /\ bridgeCall' = [bridgeCall EXCEPT
                      !.pc = "returned", !.response = response,
                      !.result = BridgeOperation(bridgeCall.operation,
                                                 bridgeCall.declaration,
                                                 response)]
  /\ UNCHANGED <<cacheVars, btVars, globalSession, dispVars, ledgerVars,
                 routed, indicatorCall, crossoverCall, levelCall, dispatchCall>>

(***************************************************************************)
(* The action router (serve, part_006:373-440).                            *)
(***************************************************************************)
\* The environment variables serve reads with getEnv (part_006:380-383)
RequiredEnv ==
  {"SUPABASE_URL", "SUPABASE_SERVICE_ROLE_KEY", "ALPHA_VANTAGE_API_KEY"}

\* The handler each case of the switch calls (part_006:389-429);
\* get_current_price_action is answered in the case itself.
Handlers ==
  [execute_trade |-> "executeTrade", close_trade |-> "closeTrade",
   update_prices |-> "updatePrices", run_bot_logic |-> "runBotLogic",
   get_current_price_action |-> "getCurrentGoldPrice",
   fetch_historical_data_action |-> "fetchAndStoreHistoricalData",
   run_backtest_action |-> "runBacktestAction",
   get_backtest_report_action |-> "getBacktestReportAction",
   list_backtests_action |-> "listBacktestsAction",
   provider_close_order |-> "handleProviderCloseOrder",
   provider_get_account_summary |-> "handleProviderGetAccountSummary",
   provider_list_open_positions |-> "handleProviderListOpenPositions",
   provider_get_server_time |-> "handleProviderGetServerTime"]

\* The actions the front end's services send (tradingService.ts and
\* part_005:62, 91, 246, 250), one that nobody sends, and a request whose
\* body names none.
RequestedActions ==
  DOMAIN Handlers
  \cup {"upsert_trading_account_action", "admin_get_env_variables_status",
        "admin_list_users_overview", "delete_everything", ""}

\* A request: its method, the environment variables that are set, whether
\* its body is JSON, and the action the body names.
RouterRequests ==
  [method : {"OPTIONS", "POST"}, set : SUBSET RequiredEnv,
   json : BOOLEAN, action : RequestedActions]

\* What serve answers: the status, the handler that ran ("" for none) and
\* the error of the envelope ("" for none; <<kind, detail>> otherwise).
RouterAnswer(status, handler, error) ==
  [status |-> status, handler |-> handler, error |-> error]

NoRouterError == <<"", "">>

\* The variable whose getEnv throws (part_006:5-11), in the order serve
\* reads them
FirstMissing(set) ==
  IF "SUPABASE_URL" \notin set THEN "SUPABASE_URL"
  ELSE IF "SUPABASE_SERVICE_ROLE_KEY" \notin set
  THEN "SUPABASE_SERVICE_ROLE_KEY"
  ELSE "ALPHA_VANTAGE_API_KEY"

\* serve (part_006:373-440).  A handler's own answer is not followed here:
\* the status is 200 for a request that reached one.
serve(req) ==
  IF req.method = "OPTIONS"
  THEN RouterAnswer(200, "", NoRouterError)
  ELSE IF req.set # RequiredEnv
  THEN RouterAnswer(400, "",
         <<"Environment variable is not set", FirstMissing(req.set)>>)
  ELSE IF ~req.json
  THEN RouterAnswer(400, "", <<"SyntaxError", "">>)
  ELSE IF req.action \in DOMAIN Handlers
  THEN RouterAnswer(200, Handlers[req.action], NoRouterError)
  ELSE RouterAnswer(400, "", <<"Unknown action", req.action>>)

NoRouted ==
  [pc |-> "idle",
   req |-> [method |-> "OPTIONS", set |-> {}, json |-> FALSE, action |-> ""],
   answer |-> RouterAnswer(0, "", NoRouterError)]

\* A request arrives and is answered.
Route(req) ==
  /\ routed' = [pc |-> "answered", req |-> req, answer |-> serve(req)]
  /\ UNCHANGED <<cacheVars, btVars, globalSession, dispVars, ledgerVars,
                 bridgeCall, indicatorCall, crossoverCall, levelCall,
                 dispatchCall>>

(***************************************************************************)
(* Technical indicators (part_006:578-737).  An array is a sequence, the   *)
(* JavaScript index i being position i + 1.  An entry is null, a number    *)
(* kept as the exact fraction <<numerator, denominator>>, or NaN.          *)
(***************************************************************************)
NullEntry == <<>>
NaN == <<0, 0>>

Nulls(n) == [i \in 1..n |-> NullEntry]

RECURSIVE SumOver(_, _, _)
\* f[from] + ... + f[to]
SumOver(f, from, to) ==
  IF to < from THEN 0 ELSE f[to] + SumOver(f, from, to - 1)

Abs(x) == IF x < 0 THEN -x ELSE x

\* part_006:623-639
calculateSMA(prices, period) ==
  IF Len(prices) = 0 THEN <<>>
  ELSE IF Len(prices) < period THEN Nulls(Len(prices))
  ELSE [i \in 1..Len(prices) |->
          IF i < period THEN NullEntry
          ELSE <<SumOver(prices, i - period + 1, i), period>>]

\* part_006:584-595: trValues, its entry 0 being null
TrueRanges(ohlcData) ==
  [i \in 1..Len(ohlcData) |->
     IF i = 1 THEN 0
     ELSE SetMax({ohlcData[i].high_price - ohlcData[i].low_price,
                  Abs(ohlcData[i].high_price - ohlcData[i - 1].close_price),
                  Abs(ohlcData[i].low_price - ohlcData[i - 1].close_price)})]

\* part_006:600-610: the loop reads trValues[1] .. trValues[period]; an
\* index past the end of trValues reads undefined, which is not === null,
\* and the sum becomes NaN.
FirstATR(ohlcData, period) ==
  IF period + 1 > Len(ohlcData) THEN NaN
  ELSE <<SumOver(TrueRanges(ohlcData), 2, period + 1), period>>

RECURSIVE SmoothedATR(_, _, _)
\* part_006:612-619: atrValues[i] for i >= period
SmoothedATR(ohlcData, period, i) ==
  IF i = period THEN FirstATR(ohlcData, period)
  ELSE LET prev == SmoothedATR(ohlcData, period, i - 1)
       IN <<prev[1] * (period - 1) + TrueRanges(ohlcData)[i + 1] * prev[2],
            prev[2] * period>>

\* array[index] = value, index <= array.length: an assignment at
\* array.length makes the array one longer
SetEntry(array, index, value) ==
  IF index < Len(array) THEN [array EXCEPT ![index + 1] = value]
  ELSE Append(array, value)

\* part_006:578-621
calculateATR(ohlcData, period) ==
  IF Len(ohlcData) < period THEN Nulls(Len(ohlcData))
  ELSE LET first == SetEntry(Nulls(Len(ohlcData)), period,
                             FirstATR(ohlcData, period))
       IN [i \in 1..Len(first) |->
             IF i - 1 <= period THEN first[i]
             ELSE SmoothedATR(ohlcData, period, i - 1)]

\* part_006:698-702: gains and losses, entry i being the change from close
\* i to close i + 1
Gains(closePrices) ==
  [i \in 1..(Len(closePrices) - 1) |->
     IF closePrices[i + 1] > closePrices[i]
     THEN closePrices[i + 1] - closePrices[i] ELSE 0]

Losses(closePrices) ==
  [i \in 1..(Len(closePrices) - 1) |->
     IF closePrices[i + 1] < closePrices[i]
     THEN closePrices[i] - closePrices[i + 1] ELSE 0]

RECURSIVE Averages(_, _, _)
\* part_006:709-714 and 726-728: <<avgGain, avgLoss>> as two numerators and
\* their common denominator, after the change with index i was taken in
Averages(closePrices, period, i) ==
  IF i = period - 1
  THEN <<SumOver(Gains(closePrices), 1, period),
         SumOver(Losses(closePrices), 1, period), period>>
  ELSE LET prev == Averages(closePrices, period, i - 1)
       IN <<prev[1] * (period - 1) + Gains(closePrices)[i + 1] * prev[3],
            prev[2] * (period - 1) + Losses(closePrices)[i + 1] * prev[3],
            prev[3] * period>>

\* part_006:716-721 and 730-735: 100 - 100 / (1 + avgGain / avgLoss)
RsiOf(averages) ==
  IF averages[2] = 0 THEN <<100, 1>>
  ELSE <<100 * averages[1], averages[1] + averages[2]>>

\* part_006:688-737.  The first loop reads gains[0] .. gains[period - 1]; an
\* index past the end of gains reads undefined and the averages become NaN.
calculateRSI(ohlcData, period) ==
  LET closePrices == [i \in 1..Len(ohlcData) |-> ohlcData[i].close_price]
  IN IF Len(ohlcData) < period THEN Nulls(Len(ohlcData))
     ELSE IF period > Len(closePrices) - 1
     THEN SetEntry(Nulls(Len(closePrices)), period, NaN)
     ELSE [i \in 1..Len(closePrices) |->
             IF i - 1 < period THEN NullEntry
             ELSE RsiOf(Averages(closePrices, period, i - 2))]

Indicators == {"calculateSMA", "calculateATR", "calculateRSI"}

\* Candles handed to an indicator
IndicatorCandles ==
  [high_price : {2, 3}, low_price : {1}, close_price : {1, 2}]

RECURSIVE SeqsUpTo(_, _)
\* the sequences over S of length at most n
SeqsUpTo(S, n) ==
  IF n = 0 THEN {<<>>}
  ELSE LET shorter == SeqsUpTo(S, n - 1)
       IN shorter \cup {Append(q, x) : q \in shorter, x \in S}

NoIndicatorCall ==
  [fn |-> "", input |-> <<>>, period |-> 1, output |-> <<>>]

IndicatorInputs ==
  {[NoIndicatorCall EXCEPT !.input = input, !.period = period] :
     input \in SeqsUpTo(IndicatorCandles, MaxInput), period \in 1..MaxPeriod}

IndicatorResult(fn, input, period) ==
  IF fn = "calculateSMA"
  THEN calculateSMA([i \in 1..Len(input) |-> input[i].close_price], period)
  ELSE IF fn = "calculateATR" THEN calculateATR(input, period)
  ELSE calculateRSI(input, period)

Calculate(fn) ==
  /\ indicatorCall.fn = ""
  /\ indicatorCall' =
       [indicatorCall EXCEPT
          !.fn = fn,
          !.output = IndicatorResult(fn, indicatorCall.input,
                                     indicatorCall.period)]
  /\ UNCHANGED <<cacheVars, btVars, globalSession, dispVars, ledgerVars,
                 bridgeCall, routed, crossoverCall, levelCall, dispatchCall>>

\* part_006:1521-1525: the second declaration of calculateSMA, which
\* returns the average of the last `period` prices, or null
calculateSMALast(prices, period) ==
  IF Len(prices) < period THEN NullEntry
  ELSE <<SumOver(prices, Len(prices) - period + 1, Len(prices)), period>>

\* part_006 declares function calculateSMA twice, at lines 623 and 1521;
\* which of them a call reaches is decided by how the file is built.
SMADeclarations == {623, 1521}

Undefined == <<0>>
TypeError == <<1>>

\* calculateSMA(prices, period)[index] (part_006:1943-1948): an entry of the
\* array of declaration 623, undefined past its ends; under declaration
\* 1521 undefined when a number is indexed and a TypeError when null is.
SMAReading(declaration, prices, period, index) ==
  IF declaration = 623
  THEN LET smaValues == calculateSMA(prices, period)
       IN IF index + 1 \in 1..Len(smaValues) THEN smaValues[index + 1]
          ELSE Undefined
  ELSE IF calculateSMALast(prices, period) = NullEntry THEN TypeError
  ELSE Undefined

\* The four averages analyzeSMACrossoverStrategy reads (part_006:1941-1948)
CrossoverReadings(declaration, closePrices, settings) ==
  LET prevClosePrices == SubSeq(closePrices, 1, Len(closePrices) - 1)
  IN [smaShort |-> SMAReading(declaration, closePrices,
                              settings.smaShortPeriod, Len(closePrices) - 1),
      smaLong |-> SMAReading(declaration, closePrices,
                             settings.smaLongPeriod, Len(closePrices) - 1),
      smaShortPrev |-> SMAReading(declaration, prevClosePrices,
                                  settings.smaShortPeriod,
                                  Len(prevClosePrices) - 1),
      smaLongPrev |-> SMAReading(declaration, prevClosePrices,
                                 settings.smaLongPeriod,
                                 Len(prevClosePrices) - 1)]

\* An average as a whole number: short averages times the long period, long
\* averages times the short period, which keeps their order
ScaledReading(reading, otherPeriod) ==
  IF Len(reading) = 2 THEN reading[1] * otherPeriod ELSE Null

\* part_006:1924-1978 on candles.  A comparison with undefined is false, so
\* no branch of 1955-1959 is taken when a reading is undefined.
CrossoverOnCandles(declaration, closePrices, decisionPrice, settings, currentAtrValue) ==
  LET readings == CrossoverReadings(declaration, closePrices, settings)
      read == {readings.smaShort, readings.smaLong, readings.smaShortPrev,
               readings.smaLongPrev}
      m == [dataLength |-> Len(closePrices),
            smaShort |-> ScaledReading(readings.smaShort,
                                       settings.smaLongPeriod),
            smaLong |-> ScaledReading(readings.smaLong,
                                      settings.smaShortPeriod),
            smaShortPrev |-> ScaledReading(readings.smaShortPrev,
                                           settings.smaLongPeriod),
            smaLongPrev |-> ScaledReading(readings.smaLongPrev,
                                          settings.smaShortPeriod)]
  IN IF Len(closePrices) < settings.smaLongPeriod \/ currentAtrValue = Null
     THEN NoTrade(decisionPrice)
     ELSE IF TypeError \in read THEN Thrown
     ELSE IF Undefined \in read THEN NoTrade(decisionPrice)
     ELSE analyzeSMACrossoverStrategy(m, decisionPrice, settings,
                                      currentAtrValue)

ClosePrices == 1..3

NoCrossoverCall ==
  [pc |-> "idle", declaration |-> 623, closePrices |-> <<>>,
   settings |-> NoSettings, atr |-> Null, result |-> NoTrade(0)]

CrossoverInputs ==
  {[NoCrossoverCall EXCEPT
      !.declaration = declaration, !.closePrices = closePrices,
      !.settings = [NoSettings EXCEPT !.smaShortPeriod = short,
                                      !.smaLongPeriod = long,
                                      !.atrMultiplierSL = 15,
                                      !.atrMultiplierTP = 30],
      !.atr = atr] :
     declaration \in SMADeclarations,
     closePrices \in SeqsUpTo(ClosePrices, MaxInput),
     short \in 1..MaxPeriod, long \in 1..MaxPeriod, atr \in {Null, 2}}

CrossoverDecisionPrice == 100

AnalyzeCrossover ==
  /\ crossoverCall.pc = "idle"
  /\ crossoverCall' =
       [crossoverCall EXCEPT
          !.pc = "done",
          !.result = CrossoverOnCandles(crossoverCall.declaration,
                                        crossoverCall.closePrices,
                                        CrossoverDecisionPrice,
                                        crossoverCall.settings,
                                        crossoverCall.atr)]
  /\ UNCHANGED <<cacheVars, btVars, globalSession, dispVars, ledgerVars,
                 bridgeCall, routed, indicatorCall, levelCall, dispatchCall>>

\* part_006:946-962 and 1961-1976, before any replay has begun
SignalLevels(input) ==
  /\ levelCall.pc = "idle"
  /\ replay = IdleReplay
  /\ levelCall' =
       [input EXCEPT
          !.pc = "done",
          !.stopLoss = StopLossLevel(input.tradeType, input.decisionPrice,
                                     input.atr * input.atrMultiplierSL),
          !.takeProfit = TakeProfitLevel(input.tradeType,
                                         input.decisionPrice,
                                         input.atr * input.atrMultiplierTP)]
  /\ UNCHANGED <<cacheVars, btVars, globalSession, dispVars, ledgerVars,
                 bridgeCall, routed, indicatorCall, crossoverCall,
                 dispatchCall>>

(***************************************************************************)
(* The dispatcher on a candle series (part_006:1983-2179), with the        *)
(* indicators it computes itself.                                          *)
(***************************************************************************)
RECURSIVE Gcd(_, _)
Gcd(a, b) == IF b = 0 THEN a ELSE Gcd(b, a % b)

\* The fraction n / d, d > 0, in lowest terms
Rat(n, d) ==
  IF n = 0 THEN <<0, 1>>
  ELSE LET g == Gcd(Abs(n), d) IN <<n \div g, d \div g>>

RatPlus(a, b) == Rat(a[1] * b[2] + b[1] * a[2], a[2] * b[2])
RatTimes(a, k) == Rat(a[1] * k, a[2])
RatOver(a, k) == Rat(a[1], a[2] * k)
\* a / b for b > 0
RatRatio(a, b) == Rat(a[1] * b[2], a[2] * b[1])

RECURSIVE RatSum(_, _, _)
RatSum(values, from, to) ==
  IF to < from THEN <<0, 1>>
  ELSE RatPlus(RatSum(values, from, to - 1), values[to])

SetMin(S) == CHOOSE x \in S : \A y \in S : x <= y

RECURSIVE SmoothedAt(_, _, _, _)
\* part_006:773-800: smoothed[i] for i >= firstValidIndex.  smoothed[i - 1]
\* is never null there, so the branch of 792-796 is not taken.
SmoothedAt(values, period, firstValidIndex, i) ==
  IF i = firstValidIndex
  THEN RatOver(RatSum(values, i - period + 2, i + 1), period)
  ELSE LET prev == SmoothedAt(values, period, firstValidIndex, i - 1)
       IN IF values[i + 1] = NullEntry THEN prev
          ELSE RatOver(RatPlus(RatTimes(prev, period - 1), values[i + 1]),
                       period)

\* part_006:742-802
wildersSmoothing(values, period) ==
  LET validCount ==
        Cardinality({i \in 1..period : values[i] # NullEntry})
      starts == {i \in 0..(Len(values) - period) :
                   \A j \in 1..period : values[i + j] # NullEntry}
      firstValidIndex == SetMin(starts) + period - 1
  IN IF Len(values) < period THEN Nulls(Len(values))
     ELSE IF validCount = 0 /\ period > 0 THEN Nulls(Len(values))
     ELSE IF starts = {} THEN Nulls(Len(values))
     ELSE [k \in 1..Len(values) |->
             IF k - 1 < firstValidIndex THEN NullEntry
             ELSE SmoothedAt(values, period, firstValidIndex, k - 1)]

\* part_006:825-834: the true ranges calculateADX computes for itself
AdxTrueRanges(ohlcData, period) ==
  [i \in 1..Len(calculateATR(ohlcData, period)) |->
     IF i = 1 THEN NullEntry ELSE <<TrueRanges(ohlcData)[i], 1>>]

\* part_006:837-846: pDM and nDM
DirectionalMovement(ohlcData, positive) ==
  [i \in 1..Len(ohlcData) |->
     IF i = 1 THEN NullEntry
     ELSE LET upMove == ohlcData[i].high_price - ohlcData[i - 1].high_price
              downMove == ohlcData[i - 1].low_price - ohlcData[i].low_price
          IN IF positive
             THEN <<IF upMove > downMove /\ upMove > 0 THEN upMove ELSE 0, 1>>
             ELSE <<IF downMove > upMove /\ downMove > 0 THEN downMove
                    ELSE 0, 1>>]

\* part_006:854-872: dxValues[i]
DirectionalIndex(sTR, sPDM, sNDM) ==
  IF sTR = NullEntry \/ sPDM = NullEntry \/ sNDM = NullEntry
  THEN NullEntry
  ELSE IF sTR[1] <= 0 THEN NullEntry
  ELSE LET pdi == RatTimes(RatRatio(sPDM, sTR), 100)
           ndi == RatTimes(RatRatio(sNDM, sTR), 100)
           diSum == RatPlus(pdi, ndi)
           diff == RatPlus(pdi, RatTimes(ndi, -1))
       IN IF diSum[1] > 0
          THEN RatTimes(RatRatio(<<Abs(diff[1]), diff[2]>>, diSum), 100)
          ELSE <<0, 1>>

\* part_006:811-879: the adx array of calculateADX
calculateADX(ohlcData, period) ==
  IF Len(ohlcData) < period + 1 THEN Nulls(Len(ohlcData))
  ELSE LET smoothedTR == wildersSmoothing(AdxTrueRanges(ohlcData, period),
                                          period)
           smoothedPDM ==
             wildersSmoothing(DirectionalMovement(ohlcData, TRUE), period)
           smoothedNDM ==
             wildersSmoothing(DirectionalMovement(ohlcData, FALSE), period)
           dxValues == [i \in 1..Len(ohlcData) |->
                          DirectionalIndex(smoothedTR[i], smoothedPDM[i],
                                           smoothedNDM[i])]
       IN wildersSmoothing(dxValues, period)

\* array[index]: undefined outside the array
EntryAt(array, index) ==
  IF index + 1 \in 1..Len(array) THEN array[index + 1] ELSE Undefined

\* An indicator value in the whole hundredths the strategies of this model
\* count in (exact for the period 1 of DispatchSettings)
WholeValue(entry) == entry[1] \div entry[2]

\* a slice that takes in the decision candle
DataForIndicatorsMut(ohlcDataForAnalysis, currentIndexForDecision) ==
  SubSeq(ohlcDataForAnalysis, 1, currentIndexForDecision + 1)

\* part_006:2038: ohlcDataForAnalysis.slice(0, currentIndexForDecision)
DataForIndicators(ohlcDataForAnalysis, currentIndexForDecision) ==
  SubSeq(ohlcDataForAnalysis, 1, currentIndexForDecision)

\* part_006:1983-2179 in backtesting mode (2034-2047): the dispatcher on the
\* series ohlcDataForAnalysis at index currentIndexForDecision.  The
\* mean-reversion strategy is handed the slice and its length as the index
\* (2141, 2163), so it ends at 913-917 before it reads an indicator.
analyzeMarketConditionsAt(declaration, sessionSettings, hostSession, ohlcDataForAnalysis, currentIndexForDecision) ==
  IF hostSession = Unbound THEN NoTrade(0)
  ELSE IF currentIndexForDecision = 0 THEN NoTrade(0)
  ELSE IF currentIndexForDecision >= Len(ohlcDataForAnalysis)
  THEN CaughtByDispatcher(Thrown)
  ELSE
    LET params == ConsolidatedParams(sessionSettings, hostSession)
        dataForIndicators ==
          DataForIndicators(ohlcDataForAnalysis, currentIndexForDecision)
        decisionPrice ==
          ohlcDataForAnalysis[currentIndexForDecision + 1].open_price
        currentAtr ==
          EntryAt(calculateATR(dataForIndicators, params.atrPeriod),
                  Len(dataForIndicators) - 1)
        closePrices == [i \in 1..Len(dataForIndicators) |->
                          dataForIndicators[i].close_price]
        smaCrossover ==
          CaughtByDispatcher(
            CrossoverOnCandles(declaration, closePrices, decisionPrice,
                               params, WholeValue(currentAtr)))
        meanReversion ==
          CaughtByDispatcher(
            analyzeMeanReversionStrategy(CHOOSE m \in Markets : TRUE,
                                         Len(dataForIndicators),
                                         Len(dataForIndicators), params,
                                         WholeValue(currentAtr)))
        currentADX ==
          EntryAt(calculateADX(dataForIndicators, params.adxPeriod),
                  Len(dataForIndicators) - 1)
    IN  IF Len(dataForIndicators) < MinRequiredLength(params)
        THEN NoTrade(decisionPrice)
        ELSE IF currentAtr = NullEntry THEN NoTrade(decisionPrice)
        ELSE IF params.strategySelectionMode = "SMA_ONLY" THEN smaCrossover
        ELSE IF params.strategySelectionMode = "MEAN_REVERSION_ONLY"
        THEN meanReversion
        ELSE IF params.strategySelectionMode = "ADAPTIVE"
        THEN IF currentADX = NullEntry THEN NoTrade(decisionPrice)
             ELSE IF currentADX[1] > params.adxTrendThreshold * currentADX[2]
             THEN smaCrossover
             ELSE IF currentADX[1] < params.adxRangeThreshold * currentADX[2]
             THEN meanReversion
             ELSE NoTrade(decisionPrice)
        ELSE NoTrade(decisionPrice)

\* Candles of a series: whole hundredths around 1.00
SeriesCandles ==
  [open_price : {100}, high_price : {102, 104}, low_price : {98},
   close_price : {99, 103}]

\* Settings with the shortest periods, so that a series of MaxSeries candles
\* reaches every branch
DispatchSettings ==
  {[NoSettings EXCEPT !.strategySelectionMode = mode,
                      !.smaShortPeriod = 1, !.smaLongPeriod = 2,
                      !.bbPeriod = 1, !.rsiPeriod = 1,
                      !.adxPeriod = 2, !.atrPeriod = 1] :
     mode \in {"", "SMA_ONLY", "MEAN_REVERSION_ONLY"}}

NoDispatchCall ==
  [pc |-> "idle", declaration |-> 623, settings |-> NoSettings,
   series |-> <<>>, index |-> 0, result |-> NoTrade(0)]

DispatchInputs ==
  {[NoDispatchCall EXCEPT !.declaration = declaration,
                          !.settings = settings, !.series = series,
                          !.index = index] :
     declaration \in SMADeclarations, settings \in DispatchSettings,
     series \in SeqsUpTo(SeriesCandles, MaxSeries) \ {<<>>},
     index \in 0..(MaxSeries - 1)}

\* The replay asks the dispatcher about the candle at dispatchCall.index
DispatchAt ==
  /\ dispatchCall.pc = "idle"
  /\ dispatchCall.index < Len(dispatchCall.series)
  /\ dispatchCall' =
       [dispatchCall EXCEPT
          !.pc = "done",
          !.result = analyzeMarketConditionsAt(
                       dispatchCall.declaration, dispatchCall.settings,
                       globalSession, dispatchCall.series,
                       dispatchCall.index)]
  /\ UNCHANGED <<cacheVars, btVars, globalSession, dispVars, ledgerVars,
                 bridgeCall, routed, indicatorCall, crossoverCall,
                 levelCall>>

InitCalls ==
  /\ bridgeCall = NoBridgeCall
  /\ routed = NoRouted
  /\ indicatorCall = NoIndicatorCall
  /\ crossoverCall = NoCrossoverCall
  /\ levelCall = NoLevelCall
  /\ dispatchCall = NoDispatchCall

InitCache ==
  /\ now = 0
  /\ latestGoldPrice = NoCache
  /\ spotCall = [p \in Callers |-> IdleCall]
  /\ lastSpot = NoCompletion

AnyMarket == CHOOSE m \in Markets : TRUE

InitDispatchIdle ==
  /\ market = AnyMarket
  /\ request = NoSettings
  /\ analysis = NoAnalysis

NextCache ==
  \/ Tick(MaxCacheTicks)
  \/ \E p \in Callers : SpotCall(p)
  \/ \E p \in Callers : UpstreamOk(p)
  \/ \E p \in Callers : UpstreamFails(p)
  \/ \E p \in Callers : UpstreamNoRate(p)

InitCacheSpec ==
  /\ InitCache /\ InitCalls /\ InitBacktest /\ InitReplay /\ InitDispatchIdle
  /\ InitLedger
  /\ globalSession = Unbound

SpecCache == InitCacheSpec /\ [][NextCache]_vars

NextBacktest ==
  \/ \E r \in BtRuns : BtRefuse(r)
  \/ \E r \in BtRuns : BtReplay(r)
  \/ \E r \in BtRuns : BtInsertReport(r)
  \/ \E r \in BtRuns : BtInsertTrades(r)
  \/ \E r \in BtRuns : BtCompensate(r)

InitBacktestSpec ==
  /\ InitCache /\ InitCalls /\ InitBacktest /\ InitReplay /\ InitDispatchIdle
  /\ InitLedger
  /\ globalSession \in GlobalSessionChoices

SpecBacktest == InitBacktestSpec /\ [][NextBacktest]_vars

\* run_backtest_action requests, with or without their dates, while
\* a manual trade is executed and a bot session started.
NextBacktestFrame ==
  \/ NextBacktest
  \/ trades = <<>> /\ ExecuteTrade("BUY")
  \/ StartBot(1)

InitBacktestFrameSpec ==
  /\ InitCache /\ InitCalls /\ InitBacktest /\ InitReplay /\ InitDispatchIdle
  /\ InitLedger
  /\ globalSession \in {Unbound, 0}

SpecBacktestFrame == InitBacktestFrameSpec /\ [][NextBacktestFrame]_vars

\* One run_backtest_action request: candles, replay, report, persistence.
NextReplay ==
  \/ \E r \in BtRuns : ReplayLoad(r)
  \/ ReplayCandle
  \/ ReplayFinish
  \/ \E r \in BtRuns : BtInsertReport(r)
  \/ \E r \in BtRuns : BtInsertTrades(r)
  \/ \E r \in BtRuns : BtCompensate(r)

InitReplaySpec ==
  /\ InitCache /\ InitCalls /\ InitBacktest /\ InitReplay /\ InitLedger
  /\ market = AnyMarket
  /\ request \in ReplayRequests
  /\ analysis = NoAnalysis
  /\ globalSession \in GlobalSessionChoices

SpecReplay == InitReplaySpec /\ [][NextReplay]_vars

NextDispatch ==
  \/ DispatchDirect
  \/ BacktestDecision
  \/ LiveDecision

InitDispatchSpec ==
  /\ InitCache /\ InitCalls /\ InitBacktest /\ InitReplay /\ InitDispatch
  /\ InitLedger
  /\ globalSession \in GlobalSessionChoices

SpecDispatch == InitDispatchSpec /\ [][NextDispatch]_vars

\* The requests the engine serves, with the given close requests and
\* run_bot_logic invocations in flight at once.  The store client answers
\* every query, with rows or with an error; a query it rejects is the
\* subject of SpecRunner.
LedgerRequests(closers, runners) ==
  \/ \E s \in Sessions : StartBot(s)
  \/ \E s \in Sessions : StopBot(s)
  \/ \E tradeType \in {"BUY", "SELL"} : ExecuteTrade(tradeType)
  \/ \E c \in closers, id \in TradeIds : CloseTradeSelect(c, id)
  \/ \E c \in closers, id \in TradeIds : ProviderCloseOrderSelect(c, id)
  \/ \E c \in closers : CloseUpdate(c)
  \/ \E r \in runners : BotStart(r)
  \/ \E r \in runners : BotCheckOpen(r)
  \/ \E r \in runners : BotExecute(r)

\* requests of every kind may overlap
NextLedger == LedgerRequests(Closers, Runners)

\* run_bot_logic invocations follow one another, and so do close requests;
\* the steps of the two interleave
NextLedgerSeq == LedgerRequests({"close1"}, {"run1"})

InitLedgerSpec ==
  /\ InitCache /\ InitCalls /\ InitBacktest /\ InitReplay /\ InitDispatchIdle
  /\ InitLedger
  /\ globalSession \in {Unbound, 0}

SpecLedger == InitLedgerSpec /\ [][NextLedger]_vars

SpecLedgerSeq == InitLedgerSpec /\ [][NextLedgerSeq]_vars

\* The ledger before any request, with the sessions a user can start and
\* the configurations of the execution provider to consider.
InitLedgerEnv(sessions, envs) ==
  /\ trades = <<>>
  /\ bot_sessions = [s \in sessions |-> NoSession]
  /\ notifications = {}
  /\ closer = [c \in Closers |-> IdleCloser]
  /\ runner = [r \in Runners |-> IdleRunner]
  /\ lastTurn = NoTurn
  /\ closeAnswer = NoCloseAnswer
  /\ env \in envs

\* run_bot_logic invocations that follow one another, over several
\* sessions, with the simulated provider or with the bridge.
NextRunner ==
  \/ \E s \in 1..NumListed : StartBot(s)
  \/ \E s \in 1..NumListed : StopBot(s)
  \/ BotStart("run1")
  \/ BotCheckOpen("run1")
  \/ BotCatch("run1")
  \/ BotExecute("run1")

InitRunnerSpec ==
  /\ InitCache /\ InitCalls /\ InitBacktest /\ InitReplay /\ InitDispatchIdle
  /\ InitLedgerEnv(1..NumListed, {NoEnv, BridgeEnv})
  /\ globalSession \in {Unbound, 0}

SpecRunner == InitRunnerSpec /\ [][NextRunner]_vars

\* run_bot_logic invocations that follow one another, and
\* provider_close_order requests, under every configuration of the
\* execution provider.
NextProvider ==
  \/ \E s \in Sessions : StartBot(s)
  \/ \E s \in Sessions : StopBot(s)
  \/ BotStart("run1")
  \/ BotCheckOpen("run1")
  \/ BotCatch("run1")
  \/ BotExecute("run1")
  \/ \E id \in TradeIds : ProviderCloseOrderSelect("close1", id)
  \/ CloseUpdate("close1")
  \/ BridgeCloseAnswer("close1")

InitProviderSpec ==
  /\ InitCache /\ InitCalls /\ InitBacktest /\ InitReplay /\ InitDispatchIdle
  /\ InitLedgerEnv(Sessions, Envs)
  /\ globalSession \in {Unbound, 0}

SpecProvider == InitProviderSpec /\ [][NextProvider]_vars

\* The ledger and the backtest share no variable.  The two ways a trade is
\* closed are followed one at a time: manual trades and their closes while
\* no backtest has been requested, or one backtest over an empty ledger.
NextClose ==
  \/ /\ replay.pc = "idle"
     /\ \/ \E tradeType \in {"BUY", "SELL"} : ExecuteTrade(tradeType)
        \/ \E id \in TradeIds : CloseTradeSelect("close1", id)
        \/ \E id \in TradeIds : ProviderCloseOrderSelect("close1", id)
        \/ CloseUpdate("close1")
  \/ /\ trades = <<>>
     /\ NextReplay

SpecClose == InitReplaySpec /\ [][NextClose]_vars

\* Manual trades and the requests that close them, overlapping, on the
\* simulated provider; a provider_close_order request may name any id.
NextCloseOrder ==
  \/ \E tradeType \in {"BUY", "SELL"} : ExecuteTrade(tradeType)
  \/ \E c \in Closers, id \in TradeIds : CloseTradeSelect(c, id)
  \/ \E c \in Closers, id \in TradeIds : ProviderCloseOrderSelect(c, id)
  \/ \E c \in Closers, id \in TicketIds : CloseOrderRefused(c, id)
  \/ \E c \in Closers : CloseUpdate(c)

SpecCloseOrder == InitLedgerSpec /\ [][NextCloseOrder]_vars

NextBridge ==
  \/ \E operation \in BridgeOperations : BridgeRequest(operation)
  \/ \E response \in BridgeResponses : BridgeAnswer(response)

InitBridgeSpec ==
  /\ InitCache /\ InitBacktest /\ InitReplay /\ InitDispatchIdle
  /\ InitLedger
  /\ globalSession = Unbound
  /\ \E declaration \in BridgeDeclarations :
       bridgeCall = [NoBridgeCall EXCEPT !.declaration = declaration]
  /\ routed = NoRouted
  /\ indicatorCall = NoIndicatorCall
  /\ crossoverCall = NoCrossoverCall
  /\ levelCall = NoLevelCall
  /\ dispatchCall = NoDispatchCall

SpecBridge == InitBridgeSpec /\ [][NextBridge]_vars

NextRouter == \E req \in RouterRequests : Route(req)

InitRouterSpec ==
  /\ InitCache /\ InitCalls /\ InitBacktest /\ InitReplay /\ InitDispatchIdle
  /\ InitLedger
  /\ globalSession = Unbound

SpecRouter == InitRouterSpec /\ [][NextRouter]_vars

NextIndicators == \E fn \in Indicators : Calculate(fn)

InitIndicatorsSpec ==
  /\ InitCache /\ InitBacktest /\ InitReplay /\ InitDispatchIdle
  /\ InitLedger
  /\ globalSession = Unbound
  /\ bridgeCall = NoBridgeCall
  /\ routed = NoRouted
  /\ indicatorCall \in IndicatorInputs
  /\ crossoverCall = NoCrossoverCall
  /\ levelCall = NoLevelCall
  /\ dispatchCall = NoDispatchCall

SpecIndicators == InitIndicatorsSpec /\ [][NextIndicators]_vars

\* the replay, and the levels of single signals at a finer grain
NextLevels ==
  \/ /\ levelCall.pc = "idle"
     /\ NextReplay
  \/ \E input \in LevelInputs : SignalLevels(input)

SpecLevels == InitReplaySpec /\ [][NextLevels]_vars

NextCrossover == AnalyzeCrossover

NextDispatchAt == DispatchAt

InitDispatchAtSpec ==
  /\ InitCache /\ InitBacktest /\ InitReplay /\ InitDispatchIdle
  /\ InitLedger
  /\ globalSession \in GlobalSessionChoices
  /\ bridgeCall = NoBridgeCall
  /\ routed = NoRouted
  /\ indicatorCall = NoIndicatorCall
  /\ crossoverCall = NoCrossoverCall
  /\ levelCall = NoLevelCall
  /\ dispatchCall \in DispatchInputs

SpecDispatchAt == InitDispatchAtSpec /\ [][NextDispatchAt]_vars

InitCrossoverSpec ==
  /\ InitCache /\ InitBacktest /\ InitReplay /\ InitDispatchIdle
  /\ InitLedger
  /\ globalSession = Unbound
  /\ bridgeCall = NoBridgeCall
  /\ routed = NoRouted
  /\ indicatorCall = NoIndicatorCall
  /\ crossoverCall \in CrossoverInputs
  /\ levelCall = NoLevelCall
  /\ dispatchCall = NoDispatchCall

SpecCrossover == InitCrossoverSpec /\ [][NextCrossover]_vars

(***************************************************************************)
(* Claims about the trade ledger.                                          *)
(***************************************************************************)
\* The ledger rows tagged with session s whose status is open.
OpenRows(s) ==
  {id \in DOMAIN trades : /\ trades[id].bot_session_id = s
                          /\ trades[id].status = "open"}

\* C2: while run_bot_logic invocations do not overlap (trade closes and
\* other requests interleaved), every session has at most one open ledger
\* row, and the execution provider is never about to be called for a
\* session that has an open trade: such a session is skipped.
C2_OneOpenTradeSequential ==
  /\ \A s \in Sessions : Cardinality(OpenRows(s)) <= 1
  /\ \A r \in Runners :
       (runner[r].pc = "execute")
         => OpenRows(Head(runner[r].queue).id) = {}

\* A run has just skipped the session, whose open trade is in the ledger.
C2_Witness ==
  /\ lastTurn.outcome = "skipped"
  /\ Cardinality(OpenRows(lastTurn.id)) = 1

\* C3: when run_bot_logic invocations overlap at any suspension point, a
\* session still never has two ledger rows with status open.
C3_OneOpenTradeOverlapping ==
  \A s \in Sessions : ~(\E i, j \in OpenRows(s) : i # j)

\* C4: in every reachable state of the ledger a closed row has close_price,
\* close time and profit_loss all set, and an open row has none of them set.
C4_CloseFieldsMatchStatus ==
  \A id \in DOMAIN trades :
    LET trade == trades[id]
    IN  /\ (trade.status = "closed")
             => /\ trade.close_price # NULL
                /\ trade.close_time # NULL
                /\ trade.profit_loss # NULL
        /\ (trade.status = "open")
             => /\ trade.close_price = NULL
                /\ trade.close_time = NULL
                /\ trade.profit_loss = NULL

\* The ledger holds a closed row next to an open one.
C4_Witness ==
  \E i, j \in DOMAIN trades :
    /\ trades[i].status = "closed" /\ trades[i].profit_loss # NULL
    /\ trades[j].status = "open"

\* C5: once a ledger row is closed, no step (a later close_trade or
\* provider_close_order included) changes its close_price, profit_loss or
\* close time.
C5_ClosedFieldsFrozen ==
  [][\A id \in DOMAIN trades :
       (trades[id].status = "closed")
         => /\ trades'[id].close_price = trades[id].close_price
            /\ trades'[id].profit_loss = trades[id].profit_loss
            /\ trades'[id].close_time = trades[id].close_time]_vars

(***************************************************************************)
(* Claims about the spot-price cache.                                      *)
(***************************************************************************)
UpstreamFailures == {"transport", "notok", "norate"}

\* C6: a spot fetch that finds a cache entry younger than 5 minutes performs
\* no upstream request, returns the cached price and leaves the cache entry
\* as it was.
C6_FreshCacheHit ==
  /\ \A p \in Callers : spotCall[p].entryYoung => spotCall[p].io = 0
  /\ lastSpot.entryYoung
       => /\ lastSpot.io = 0
          /\ lastSpot.upstream = "none"
          /\ lastSpot.outcome = "returned"
          /\ lastSpot.price = lastSpot.cacheBefore.price
          /\ lastSpot.cacheAfter = lastSpot.cacheBefore
          /\ latestGoldPrice = lastSpot.cacheBefore

\* A call found an entry aged 2.5 minutes, written by an earlier refresh,
\* and has returned.
C6_Witness ==
  /\ lastSpot.entryYoung
  /\ lastSpot.outcome = "returned"
  /\ lastSpot.cacheBefore.timestamp > 0
  /\ lastSpot.at - lastSpot.cacheBefore.timestamp = TickMs

\* C7: a spot fetch that finds the cache empty or its entry 5 minutes old or
\* older, and whose upstream request succeeds, performs exactly one upstream
\* request, returns the fetched price and replaces the cache entry by that
\* price stamped with the time of the replacement.
C7_StaleCacheRefresh ==
  /\ \A p \in Callers :
       (spotCall[p].pc = "awaitFetch") => spotCall[p].io = 1
  /\ (~lastSpot.entryYoung /\ lastSpot.upstream = "ok")
       => /\ lastSpot.io = 1
          /\ lastSpot.outcome = "returned"
          /\ lastSpot.price = lastSpot.rate
          /\ lastSpot.cacheAfter = [has |-> TRUE, price |-> lastSpot.rate,
                                    timestamp |-> lastSpot.at]
          /\ latestGoldPrice = lastSpot.cacheAfter

\* A call found an entry that was not young, and its upstream answer
\* replaced an entry at least 5 minutes old by a different price.
C7_Witness ==
  /\ lastSpot.entryHas /\ ~lastSpot.entryYoung
  /\ lastSpot.upstream = "ok"
  /\ lastSpot.cacheBefore.has
  /\ lastSpot.at - lastSpot.cacheBefore.timestamp >= PRICE_CACHE_DURATION_MS
  /\ lastSpot.rate # lastSpot.cacheBefore.price

\* C8: when the upstream request fails (transport error, non-OK status, or
\* a response without an exchange rate) the spot fetch returns the cached
\* price if the entry is younger than 10 minutes and fails otherwise; a
\* price from an entry 10 minutes old or older is never returned.
C8_FailureFallsBackWithin10Min ==
  (lastSpot.upstream \in UpstreamFailures)
    => IF YoungerThan(lastSpot.cacheBefore, lastSpot.at, 10)
       THEN /\ lastSpot.outcome = "returned"
            /\ lastSpot.price = lastSpot.cacheBefore.price
       ELSE lastSpot.outcome = "threw"

(***************************************************************************)
(* Claims about the backtest's persistence.                                *)
(***************************************************************************)
TradesOfReport(r) == {t \in simulated_trades : t[1] = r}

\* C1: after run_backtest_action returns, whatever the outcome of each
\* store operation, the store holds either the report summary row together
\* with all simulated-trade rows of that run, or neither the summary row
\* nor any of its simulated trades.
C1_BacktestAtomic ==
  \A r \in BtRuns :
    (bt[r].pc = "done")
      => \/ /\ r \in backtest_reports
            /\ TradesOfReport(r) = {<<r, i>> : i \in 1..bt[r].n}
         \/ /\ r \notin backtest_reports
            /\ TradesOfReport(r) = {}

(***************************************************************************)
(* Claims about the strategy dispatcher.                                   *)
(***************************************************************************)
\* The settings a caller hands in, with the documented defaults.
DocumentedParams(settings) ==
  ConsolidatedParams(settings, settings.atrMultiplierTP)

EnoughData(params) ==
  /\ market.dataLength >= MinRequiredLength(params)
  /\ market.atr # Null

SameDecision(a, b) ==
  /\ a.shouldTrade = b.shouldTrade
  /\ a.tradeType = b.tradeType
  /\ a.stopLoss = b.stopLoss
  /\ a.takeProfit = b.takeProfit

\* What each strategy returns for the market, the decision candle being
\* part of the series it is given.
SmaDecision(params) ==
  analyzeSMACrossoverStrategy(market, market.decisionPrice, params,
                              market.atr)

MeanReversionDecision(params) ==
  analyzeMeanReversionStrategy(market, market.dataLength + 1,
                               market.dataLength, params, market.atr)

\* C9: in ADAPTIVE mode with enough data, the dispatcher returns the
\* SMA-crossover strategy's decision (side, stop, take) when ADX is above
\* adxTrendThreshold, the mean-reversion strategy's decision when ADX is
\* below adxRangeThreshold, and no trade when ADX lies between them.
C9_AdaptiveDispatch ==
  LET params == DocumentedParams(analysis.settings)
  IN  (/\ analysis.caller # "none"
       /\ params.strategySelectionMode = "ADAPTIVE"
       /\ EnoughData(params)
       /\ market.adx # Null)
      => IF market.adx > params.adxTrendThreshold
         THEN SameDecision(analysis.result, SmaDecision(params))
         ELSE IF market.adx < params.adxRangeThreshold
         THEN SameDecision(analysis.result, MeanReversionDecision(params))
         ELSE ~analysis.result.shouldTrade

\* C10: a backtest request or bot session whose strategy mode is SMA_ONLY
\* (MEAN_REVERSION_ONLY) is decided by that strategy alone: its signal is
\* the named strategy's signal whatever the ADX value is.
C10_ExplicitModeDecides ==
  LET params == DocumentedParams(request)
  IN  (/\ analysis.caller \in {"backtest", "live"}
       /\ EnoughData(params))
      => /\ (request.strategySelectionMode = "SMA_ONLY")
              => SameDecision(analysis.result, SmaDecision(params))
         /\ (request.strategySelectionMode = "MEAN_REVERSION_ONLY")
              => SameDecision(analysis.result,
                              MeanReversionDecision(params))

(***************************************************************************)
(* Claims about the backtest replay.                                       *)
(***************************************************************************)
\* The candle's range reaches the trade's stop, or its take-profit.
ReachesStop(trade, candle) ==
  IF trade.tradeType = "BUY"
  THEN candle.low_price * 10 <= trade.stopLossPrice
  ELSE candle.high_price * 10 >= trade.stopLossPrice

ReachesTake(trade, candle) ==
  IF trade.tradeType = "BUY"
  THEN candle.high_price * 10 >= trade.takeProfitPrice
  ELSE candle.low_price * 10 <= trade.takeProfitPrice

\* The closes recorded in the last candle for the trade that was open when
\* the candle began.
ClosesOfOpenTrade ==
  {k \in DOMAIN candleLog.closed :
     candleLog.closed[k].entryTime = candleLog.before.entryTime}

\* C11: when a candle's range reaches both the open trade's stop and its
\* take-profit, the trade is closed in that candle at the stop price with
\* close_reason SL, and not with TP.
C11_StopBeforeTake ==
  (/\ candleLog.before.status = "open"
   /\ ReachesStop(candleLog.before, candleLog.candle)
   /\ ReachesTake(candleLog.before, candleLog.candle))
  => /\ ClosesOfOpenTrade # {}
     /\ \A k \in ClosesOfOpenTrade :
          /\ candleLog.closed[k].closeReason = "SL"
          /\ candleLog.closed[k].exitPrice
               = <<candleLog.before.stopLossPrice>>
          /\ candleLog.closed[k].exitTime = <<candleLog.candle.timestamp>>

\* A SELL trade met a candle that reaches its stop and its target, and was
\* closed at the stop.
C11_Witness ==
  /\ candleLog.before.status = "open"
  /\ candleLog.before.tradeType = "SELL"
  /\ ReachesStop(candleLog.before, candleLog.candle)
  /\ ReachesTake(candleLog.before, candleLog.candle)
  /\ candleLog.closed # <<>>
  /\ candleLog.closed[1].closeReason = "SL"

OppositeSignal(trade) ==
  /\ candleLog.analysisResult.shouldTrade
  /\ candleLog.analysisResult.tradeType # trade.tradeType

\* C13: a trade that is still open after the stop and target checks and
\* meets the opposite side from the dispatcher is closed at the candle's
\* open with close_reason Signal, and no trade is opened in that candle; a
\* close with reason Signal happens only on an opposite-side signal.
C13_SignalExit ==
  /\ (/\ candleLog.before.status = "open"
      /\ ~ReachesStop(candleLog.before, candleLog.candle)
      /\ ~ReachesTake(candleLog.before, candleLog.candle)
      /\ OppositeSignal(candleLog.before))
     => /\ ClosesOfOpenTrade # {}
        /\ \A k \in ClosesOfOpenTrade :
             /\ candleLog.closed[k].closeReason = "Signal"
             /\ candleLog.closed[k].exitPrice
                  = <<candleLog.candle.open_price * 10>>
             /\ candleLog.closed[k].exitTime = <<candleLog.candle.timestamp>>
        /\ candleLog.after.status = "none"
        /\ openTrade.status = "none"
  /\ \A k \in DOMAIN candleLog.closed :
       (candleLog.closed[k].closeReason = "Signal")
         => OppositeSignal(candleLog.closed[k])

\* A BUY trade was closed by a SELL signal at the candle's open, which
\* differs from its entry price.
C13_Witness ==
  /\ candleLog.before.status = "open"
  /\ candleLog.before.tradeType = "BUY"
  /\ candleLog.closed # <<>>
  /\ candleLog.closed[1].closeReason = "Signal"
  /\ candleLog.closed[1].exitPrice # <<candleLog.before.entryPrice>>
  /\ candleLog.analysisResult.tradeType = "SELL"

ReplayReturned == replay.pc = "done" /\ replay.status = 200

EndOfTestTrades ==
  {k \in DOMAIN tradesForDb : tradesForDb[k].closeReason = "EndOfTest"}

\* C14: every simulated trade a finished backtest records has an exit
\* price, an exit time and a close_reason among SL, TP, Signal, EndOfTest;
\* a trade still open after the last candle is recorded as closed at the
\* last candle's close price and timestamp with reason EndOfTest; at most
\* one trade of the run has EndOfTest.
C14_AllTradesClosed ==
  ReplayReturned
  => /\ \A k \in DOMAIN tradesForDb :
          /\ tradesForDb[k].exitPrice # NULL
          /\ tradesForDb[k].exitTime # NULL
          /\ tradesForDb[k].closeReason \in {"SL", "TP", "Signal", "EndOfTest"}
     /\ Cardinality(EndOfTestTrades) <= 1
     /\ \A k \in EndOfTestTrades :
          /\ tradesForDb[k].exitPrice = <<candleLog.candle.close_price * 10>>
          /\ tradesForDb[k].exitTime = <<replay.length - 1>>
     /\ (openTrade.status = "open")
          => /\ tradesForDb # <<>>
             /\ LET last == tradesForDb[Len(tradesForDb)]
                IN  /\ last.closeReason = "EndOfTest"
                    /\ last.entryTime = openTrade.entryTime
                    /\ last.entryPrice = openTrade.entryPrice

\* The replay returned three trades; the last one was open after the last
\* candle.
C14_Witness ==
  /\ ReplayReturned
  /\ Len(tradesForDb) = 3
  /\ openTrade.status = "open"
  /\ tradesForDb[3].closeReason = "EndOfTest"

Profits == [k \in DOMAIN tradesForDb |-> tradesForDb[k].profitOrLoss[1]]

RECURSIVE SumOf(_)
SumOf(numbers) ==
  IF numbers = <<>> THEN 0 ELSE Head(numbers) + SumOf(Tail(numbers))

Winners == {k \in DOMAIN tradesForDb : Profits[k] > 0}
Losers  == {k \in DOMAIN tradesForDb : Profits[k] < 0}

CountsMatchTrades ==
  /\ reportSummary.total_trades = Len(tradesForDb)
  /\ reportSummary.winning_trades = Cardinality(Winners)
  /\ reportSummary.losing_trades = Cardinality(Losers)
  /\ reportSummary.winning_trades + reportSummary.losing_trades
       <= reportSummary.total_trades
  /\ (reportSummary.total_trades = 0) => (reportSummary.win_rate = 0)

Distance(a, b) == IF a < b THEN b - a ELSE a - b

\* C15 as stated: total_trades, winning_trades and losing_trades count the
\* trades, those with profit > 0 and those with profit < 0; total_pl is the
\* sum of the trades' profits; win_rate is winning/total*100 (in hundredths
\* of a percent here), and 0 without trades.
C15_AggregatesExact ==
  ReplayReturned
  => /\ CountsMatchTrades
     /\ reportSummary.total_profit_loss = SumOf(Profits)
     /\ reportSummary.win_rate * reportSummary.total_trades
          = reportSummary.winning_trades * 10000

\* C15 as amended: the counts are as stated; total_pl is the sum of the
\* trades' profits rounded to two decimals, and win_rate is
\* winning/total*100 rounded to two decimals, 0 without trades.
C15_AggregatesRounded ==
  ReplayReturned
  => /\ CountsMatchTrades
     /\ reportSummary.total_profit_loss % 1000 = 0
     /\ 2 * Distance(reportSummary.total_profit_loss, SumOf(Profits)) <= 1000
     /\ 2 * Distance(reportSummary.win_rate * reportSummary.total_trades,
                     reportSummary.winning_trades * 10000)
          <= reportSummary.total_trades

\* A report over three trades, one of them a winner, whose profits do not
\* add up to whole hundredths.
C15_Witness ==
  /\ ReplayReturned
  /\ reportSummary.total_trades = 3
  /\ reportSummary.winning_trades = 1
  /\ reportSummary.losing_trades = 2
  /\ SumOf(Profits) % 1000 # 0

\* The candles the spec requires for the request's settings.
RequiredCandles ==
  MinRequiredLength(
    ConsolidatedParams(BacktestStrategyParams(request),
                       BacktestStrategyParams(request).atrMultiplierTP))

\* C16: whenever the number of candles loaded is below max(smaLong,
\* atrPeriod+1, bbPeriod, rsiPeriod, 2*adxPeriod-1), run_backtest_action
\* fails with the insufficient-data error and persists no report.
C16_InsufficientDataFails ==
  (/\ replay.pc \in {"loop", "done"}
   /\ replay.status # 500
   /\ replay.length < RequiredCandles)
  => /\ replay.pc = "done"
     /\ replay.status = 400
     /\ replay.r \notin backtest_reports

\* C17: every closed trade with a positive lot size, in the ledger and in a
\* backtest, has profit = (BUY ? exit - entry : entry - exit) * lot * 100;
\* so a BUY closed above entry has profit > 0, a SELL closed above entry
\* has profit < 0, and a close at the entry price has profit 0.
C17_ProfitFormula ==
  /\ \A id \in DOMAIN trades :
       (trades[id].status = "closed" /\ trades[id].lot_size > 0)
       => LET trade == trades[id]
              exit == trade.close_price[1]
              profit == trade.profit_loss[1]
          IN  /\ profit * 100
                   = (IF trade.trade_type = "BUY"
                      THEN exit - trade.open_price
                      ELSE trade.open_price - exit) * trade.lot_size * 100
              /\ (exit > trade.open_price)
                   => IF trade.trade_type = "BUY"
                      THEN profit > 0 ELSE profit < 0
              /\ (exit = trade.open_price) => profit = 0
  /\ \A k \in DOMAIN tradesForDb :
       (tradesForDb[k].lotSize > 0)
       => LET trade == tradesForDb[k]
              exit == trade.exitPrice[1]
              profit == trade.profitOrLoss[1]
          IN  /\ profit
                   = (IF trade.tradeType = "BUY"
                      THEN exit - trade.entryPrice
                      ELSE trade.entryPrice - exit) * trade.lotSize * 100
              /\ (exit > trade.entryPrice)
                   => IF trade.tradeType = "BUY"
                      THEN profit > 0 ELSE profit < 0
              /\ (exit = trade.entryPrice) => profit = 0

\* A backtest recorded a SELL closed above its entry price, at a loss.
C17_Witness ==
  \E k \in DOMAIN tradesForDb :
    /\ tradesForDb[k].tradeType = "SELL"
    /\ tradesForDb[k].lotSize > 1
    /\ tradesForDb[k].exitPrice[1] > tradesForDb[k].entryPrice
    /\ tradesForDb[k].profitOrLoss[1] < 0

\* The sessions of the list that the run of the last turn has finished.
Finished(turn) == SubSeq(turn.sessions, 1, turn.position)

BridgeConfigured ==
  /\ toUpperCase(env.TRADE_PROVIDER_TYPE) = "METATRADER"
  /\ env.MT_BRIDGE_URL # ""
  /\ env.MT_BRIDGE_API_KEY # ""

\* C20: the orders of run_bot_logic and the requests of
\* provider_close_order go to the bridge provider exactly when
\* TRADE_PROVIDER_TYPE is METATRADER and MT_BRIDGE_URL and
\* MT_BRIDGE_API_KEY are both set, and to the simulated provider in every
\* other configuration.
C20_ProviderSelection ==
  /\ lastTurn.outcome \in {"executed", "order_failed"} =>
       lastTurn.provider =
         IF BridgeConfigured THEN "METATRADER" ELSE "SIMULATED"
  /\ \A c \in Closers :
       closer[c].action = "provider_close_order" =>
         closer[c].provider =
           IF BridgeConfigured THEN "METATRADER" ELSE "SIMULATED"

\* With the bridge configured a session's order went to the bridge, and a
\* provider_close_order request is on its way to it.
C20_Witness ==
  /\ BridgeConfigured
  /\ lastTurn.outcome = "executed"
  /\ lastTurn.provider = "METATRADER"
  /\ closer["close1"].pc = "bridge"

\* METATRADER without the bridge's URL: a session's order was executed by
\* the simulated provider, which inserted the ledger row.
C20_FallbackReached ==
  /\ env.TRADE_PROVIDER_TYPE = "METATRADER"
  /\ env.MT_BRIDGE_URL = ""
  /\ lastTurn.outcome = "executed"
  /\ lastTurn.provider = "SIMULATED"
  /\ lastTurn.trade \in DOMAIN trades

(***************************************************************************)
(* Claims about the bridge provider.                                       *)
(***************************************************************************)
\* The bridge's answer is one of the failures: the transport failed, the
\* status is not 2xx, the body of a 200 response does not parse, or it is
\* an object with success false.
BridgeFailure(response) ==
  \/ TransportFailure(response)
  \/ response.status \notin 200..299
  \/ /\ response.status = 200
     /\ \/ response.body.json = "unparsable"
        \/ /\ response.body.json = "object"
           /\ response.body.success = "false"

\* The error names the operation's endpoint or carries the bridge's error.
NamesEndpointOrBridgeError(operation, error) ==
  \/ error.endpoint = BridgeEndpoints[operation]
  \/ error.kind = "bridge"

\* C21: no operation of the bridge provider lets an exception reach its
\* caller, and when the bridge's answer is a failure (transport failure,
\* non-2xx status, unparsable body, success false) executeOrder and
\* closeOrder return success false with an error naming the endpoint or the
\* bridge's error, getAccountSummary and getServerTime return a result
\* whose error field is set, and getOpenPositions returns the empty list.
C21_BridgeFailuresContained ==
  bridgeCall.pc = "returned" =>
    LET operation == bridgeCall.operation
        result == bridgeCall.result
    IN  /\ ~result.propagated
        /\ BridgeFailure(bridgeCall.response) =>
             CASE operation \in {"executeOrder", "closeOrder"} ->
                    /\ result.success = "false"
                    /\ result.error # NoError
                    /\ NamesEndpointOrBridgeError(operation, result.error)
               [] operation \in {"getAccountSummary", "getServerTime"} ->
                    result.error # NoError
               [] operation = "getOpenPositions" -> result.value = "[]"

\* C22: an operation that received a 202 or a 204 from the bridge reports
\* success: executeOrder and closeOrder return success true, the other
\* operations a result without error.
C22_AcceptedIsSuccess ==
  (bridgeCall.pc = "returned" /\ bridgeCall.response.status \in {202, 204})
    => IF bridgeCall.operation \in {"executeOrder", "closeOrder"}
       THEN bridgeCall.result.success = "true"
       ELSE bridgeCall.result.error = NoError

(***************************************************************************)
(* Claims about the action router.                                         *)
(***************************************************************************)
\* The 16 canonical action names.
CanonicalActions ==
  {"execute_trade", "close_trade", "update_prices", "run_bot_logic",
   "get_current_price_action", "fetch_historical_data_action",
   "run_backtest_action", "get_backtest_report_action",
   "list_backtests_action", "provider_close_order",
   "provider_get_account_summary", "provider_list_open_positions",
   "provider_get_server_time", "upsert_trading_account_action",
   "admin_get_env_variables_status", "admin_list_users_overview"}

\* The request got as far as the switch on its action.
ReachedSwitch(req) ==
  req.method = "POST" /\ req.set = RequiredEnv /\ req.json

\* C23: a request naming one of the 16 canonical actions is dispatched to
\* a handler; a request naming anything else is answered with
\* {error: "Unknown action: ..."} and a non-2xx status, and no handler
\* runs.
C23_RouterDispatch ==
  (routed.pc = "answered" /\ ReachedSwitch(routed.req)) =>
    IF routed.req.action \in CanonicalActions
    THEN routed.answer.handler # ""
    ELSE /\ routed.answer.handler = ""
         /\ routed.answer.error = <<"Unknown action", routed.req.action>>
         /\ routed.answer.status \notin 200..299

(***************************************************************************)
(* Claims about the technical indicators.                                  *)
(***************************************************************************)
\* The index of the first entry an indicator can fill
FirstIndex(call) ==
  IF call.fn = "calculateSMA" THEN call.period - 1 ELSE call.period

\* C24: for every input and every period p >= 1, calculateSMA, calculateATR
\* and calculateRSI return an array as long as the input, whose entries
\* before index p - 1 (SMA) or p (ATR, RSI) are null and whose entry at that
\* index is not null whenever the input has more elements than that.
C24_IndicatorShape ==
  indicatorCall.fn # "" =>
    /\ Len(indicatorCall.output) = Len(indicatorCall.input)
    /\ \A i \in 1..Len(indicatorCall.output) :
         i - 1 < FirstIndex(indicatorCall)
           => indicatorCall.output[i] = NullEntry
    /\ Len(indicatorCall.input) > FirstIndex(indicatorCall)
         => indicatorCall.output[FirstIndex(indicatorCall) + 1] # NullEntry


(***************************************************************************)
(* Claims about the strategies on candles.                                 *)
(***************************************************************************)
\* The sum of the last `period` of the first n closes
LastCloses(call, n, period) ==
  SumOver(call.closePrices, n - period + 1, n)

\* The four averages and the ATR of a call are available
AveragesAvailable(call) ==
  /\ call.atr # Null
  /\ Len(call.closePrices) - 1 >= call.settings.smaShortPeriod
  /\ Len(call.closePrices) - 1 >= call.settings.smaLongPeriod

\* short average > long average over the first n closes (and >=), by cross
\* multiplication
ShortAbove(call, n) ==
  LastCloses(call, n, call.settings.smaShortPeriod)
      * call.settings.smaLongPeriod
    > LastCloses(call, n, call.settings.smaLongPeriod)
        * call.settings.smaShortPeriod

ShortBelow(call, n) ==
  LastCloses(call, n, call.settings.smaShortPeriod)
      * call.settings.smaLongPeriod
    < LastCloses(call, n, call.settings.smaLongPeriod)
        * call.settings.smaShortPeriod

CrossedUp(call) ==
  /\ AveragesAvailable(call)
  /\ ~ShortAbove(call, Len(call.closePrices) - 1)
  /\ ShortAbove(call, Len(call.closePrices))

CrossedDown(call) ==
  /\ AveragesAvailable(call)
  /\ ~ShortBelow(call, Len(call.closePrices) - 1)
  /\ ShortBelow(call, Len(call.closePrices))

\* C25: the SMA crossover strategy returns BUY exactly when the short
\* average was at or below the long one at the previous candle and is above
\* it now, SELL exactly when it was at or above and is below now, and no
\* trade otherwise; it never returns a trade when one of the four averages
\* or the ATR is unavailable.
C25_SMACrossover ==
  crossoverCall.pc = "done" =>
    /\ ~crossoverCall.result.thrown
    /\ (crossoverCall.result.shouldTrade
          /\ crossoverCall.result.tradeType = "BUY")
         <=> CrossedUp(crossoverCall)
    /\ (crossoverCall.result.shouldTrade
          /\ crossoverCall.result.tradeType = "SELL")
         <=> CrossedDown(crossoverCall)
    /\ crossoverCall.result.shouldTrade
         => AveragesAvailable(crossoverCall)


\* decision - risk for BUY, decision + risk for SELL
ExactStop(call) ==
  IF call.tradeType = "BUY"
  THEN call.decisionPrice - call.atr * call.atrMultiplierSL
  ELSE call.decisionPrice + call.atr * call.atrMultiplierSL

ExactTake(call) ==
  IF call.tradeType = "BUY"
  THEN call.decisionPrice + call.atr * call.atrMultiplierTP
  ELSE call.decisionPrice - call.atr * call.atrMultiplierTP

\* stop, entry and target in the order of the side, strictly or not
LevelsOrdered(tradeType, stop, entry, take, strict) ==
  LET below(a, b) == IF strict THEN a < b ELSE a <= b
  IN IF tradeType = "BUY" THEN below(stop, entry) /\ below(entry, take)
     ELSE below(take, entry) /\ below(entry, stop)

\* Every opened trade of the replay has its levels in order, a trade closed
\* by SL has no profit and one closed by TP has no loss.
ReplayLevels(strict) ==
  /\ openTrade.status = "open"
       => LevelsOrdered(openTrade.tradeType, openTrade.stopLossPrice,
                        openTrade.entryPrice, openTrade.takeProfitPrice,
                        strict)
  /\ \A k \in 1..Len(tradesForDb) :
       /\ LevelsOrdered(tradesForDb[k].tradeType,
                        tradesForDb[k].stopLossPrice,
                        tradesForDb[k].entryPrice,
                        tradesForDb[k].takeProfitPrice, strict)
       /\ tradesForDb[k].closeReason = "SL"
            => tradesForDb[k].profitOrLoss[1] <= 0
       /\ tradesForDb[k].closeReason = "TP"
            => tradesForDb[k].profitOrLoss[1] >= 0

C26_ClosedByStop ==
  \E k \in 1..Len(tradesForDb) : tradesForDb[k].closeReason = "SL"


(***************************************************************************)
(* Claims about stopped sessions and concurrent runs.                      *)
(***************************************************************************)
\* The step inserts a ledger trade tagged with session s
InsertsTradeOf(s) ==
  /\ Len(trades') = Len(trades) + 1
  /\ trades'[Len(trades')].bot_session_id = s

\* C27: stopping a session is terminal: once a session's status is stopped
\* it never becomes active again, and run_bot_logic inserts no ledger trade
\* tagged with that session after the status became stopped.
C27_StopIsTerminal ==
  [][\A s \in DOMAIN bot_sessions :
       bot_sessions[s].status = "stopped"
         => /\ bot_sessions'[s].status = "stopped"
            /\ ~InsertsTradeOf(s)]_vars


(***************************************************************************)
(* Claims about the dispatcher on a candle series.                         *)
(***************************************************************************)
\* The candle every series is given where the dispatcher must not look
BlankCandle ==
  [open_price |-> 100, high_price |-> 102, low_price |-> 98,
   close_price |-> 99]

\* The series that agrees with `series` on the candles before index i and
\* on the open of candle i, and is blank in candle i's high, low and close
\* and in all later candles
BlankedFrom(series, i) ==
  [k \in 1..Len(series) |->
     IF k - 1 < i THEN series[k]
     ELSE IF k - 1 = i
     THEN [BlankCandle EXCEPT !.open_price = series[k].open_price]
     ELSE BlankCandle]

\* C28: the backtest has no look-ahead: the dispatcher's result at candle
\* index i is the one it gives for the series with the same candles before
\* i and the same open at i whose other values are blank; so two series
\* that agree on candles 0..i-1 and on the open of candle i yield the same
\* side, stop and take at i, whatever candle i's high, low and close and
\* the later candles are.
C28_NoLookAhead ==
  dispatchCall.pc = "done" =>
    dispatchCall.result =
      analyzeMarketConditionsAt(
        dispatchCall.declaration, dispatchCall.settings, globalSession,
        BlankedFrom(dispatchCall.series, dispatchCall.index),
        dispatchCall.index)

\* The dispatcher signalled a trade at a candle whose high and close, and a
\* later candle, are not the blank ones
C28_Witness ==
  /\ dispatchCall.pc = "done"
  /\ dispatchCall.result.shouldTrade
  /\ dispatchCall.index + 1 < Len(dispatchCall.series)
  /\ dispatchCall.series[dispatchCall.index + 1].close_price = 103
  /\ dispatchCall.series[dispatchCall.index + 1].high_price = 104
  /\ dispatchCall.series[dispatchCall.index + 2] # BlankCandle


(***************************************************************************)
(* Claims about the order of the replay's trades.                          *)
(***************************************************************************)
\* While the loop runs, the one trade that is open was opened no earlier
\* than every recorded trade was closed
OpenAfterRecorded ==
  (replay.pc = "loop" /\ openTrade.status = "open")
    => \A k \in DOMAIN tradesForDb :
         tradesForDb[k].exitTime[1] <= openTrade.entryTime

\* Each recorded trade's entry time is at least the exit time of the trade
\* recorded before it
RecordedInOrder ==
  \A k \in 2..Len(tradesForDb) :
    tradesForDb[k].entryTime >= tradesForDb[k - 1].exitTime[1]

\* The recorded trades, other than those of the reasons given, were closed
\* in a later candle than the one they were opened in; those of the
\* reasons given not in an earlier one
ClosedInLaterCandle(sameCandleReasons) ==
  \A k \in DOMAIN tradesForDb :
    IF tradesForDb[k].closeReason \in sameCandleReasons
    THEN tradesForDb[k].exitTime[1] >= tradesForDb[k].entryTime
    ELSE tradesForDb[k].exitTime[1] > tradesForDb[k].entryTime

TradesOfSession(s) ==
  {id \in DOMAIN trades : trades[id].bot_session_id = s}

\* No run_bot_logic invocation is in flight
RunnersIdle == \A r \in Runners : runner[r].pc = "idle"

\* C30: under the simulated provider, after any sequence of run_bot_logic
\* invocations, overlapping ones included, every session's total_trades
\* counter equals the number of ledger rows tagged with that session's id.
C30_CounterMatchesLedger ==
  (RunnersIdle /\ SessionTradeProvider(env) = "SIMULATED")
    => \A s \in DOMAIN bot_sessions :
         bot_sessions[s].total_trades = Cardinality(TradesOfSession(s))


(***************************************************************************)
(* Claims about closeOrder of the simulated provider.                      *)
(***************************************************************************)
\* The id denotes an open ledger row
DenotesOpenRow(id) == id \in DOMAIN trades /\ trades[id].status = "open"

\* The step is the query of a provider_close_order request that found its
\* row and goes on to the update
FetchedForCloseOrder(c) ==
  /\ closer[c].pc = "idle"
  /\ closer'[c].pc = "update"
  /\ closer'[c].action = "provider_close_order"

\* The step is the update of a close request
UpdatesForClose(c) == closer[c].pc = "update" /\ closer'[c].pc = "idle"

\* C31: simulated closeOrder called with an id that does not denote an
\* open ledger row (an unknown id, or a trade that is already closed)
\* returns success=false with an error and leaves every ledger row
\* unchanged: its query never finds such a row, and the answer it gives at
\* the query is a failure with an error after which the ledger is as
\* before; called with the id of an open row it changes that row only.
C31_CloseOrderOnId ==
  [][/\ \A c \in Closers :
          FetchedForCloseOrder(c) => DenotesOpenRow(closer'[c].id)
     /\ (closeAnswer' # NoCloseAnswer) =>
          /\ DOMAIN trades' = DOMAIN trades
          /\ \A k \in DOMAIN trades \ {closeAnswer'.id} :
               trades'[k] = trades[k]
          /\ ((\A c \in Closers : ~UpdatesForClose(c))
                /\ ~DenotesOpenRow(closeAnswer'.id))
               => /\ ~closeAnswer'.success
                  /\ closeAnswer'.error # ""
                  /\ trades' = trades]_vars

\* closeOrder was called with the id of a closed trade while the ledger
\* holds an open one, and answered that no open trade has the id
C31_Witness ==
  /\ closeAnswer.id \in DOMAIN trades
  /\ trades[closeAnswer.id].status = "closed"
  /\ \E k \in DOMAIN trades : trades[k].status = "open"
  /\ ~closeAnswer.success
  /\ closeAnswer.error \in NotFoundErrors


(***************************************************************************)
(* Claims about what a run_backtest_action request touches.                *)
(***************************************************************************)
\* The request's data lack startDate or endDate
WithoutDate(data) == data.startDate = "" \/ data.endDate = ""

\* The step belongs to request r
StepOfBacktest(r) == bt'[r] # bt[r]

\* C32: a run_backtest_action request without startDate or without
\* endDate is answered with a 400-class error and has no effect: no candle
\* is read, no report or simulated trade is written, and no email is sent;
\* and no run_backtest_action request, valid or not, ever writes to the
\* trade ledger or to bot sessions.
C32_UndatedBacktestRefused ==
  [][\A r \in BtRuns :
       /\ (bt'[r].pc # "idle" /\ WithoutDate(btData'[r]))
            => /\ bt'[r].pc = "done"
               /\ bt'[r].status \in 400..499
               /\ r \notin price_data_reads'
               /\ r \notin backtest_reports'
               /\ \A t \in simulated_trades' : t[1] # r
               /\ r \notin emails'
       /\ (StepOfBacktest(r) /\ WithoutDate(btData'[r]))
            => UNCHANGED <<price_data_reads, backtest_reports,
                           simulated_trades, emails>>
       /\ StepOfBacktest(r) => UNCHANGED <<trades, bot_sessions>>]_vars

\* A request without endDate was answered 400 while the ledger holds a
\* trade, a session is active, and another request has stored its report
\* and trades and sent its email
C32_Witness ==
  \E r \in BtRuns :
    /\ btData[r].data /\ btData[r].startDate # "" /\ btData[r].endDate = ""
    /\ bt[r].pc = "done" /\ bt[r].status = 400
    /\ trades # <<>>
    /\ \E s \in DOMAIN bot_sessions : bot_sessions[s].status = "active"
    /\ \E q \in BtRuns \ {r} :
         /\ q \in backtest_reports /\ q \in emails /\ q \in price_data_reads
         /\ \E t \in simulated_trades : t[1] = q


=============================================================================
